---------------------------- MODULE Spec2Model ----------------------------
(***************************************************************************)
(* Model of the prediction / reconciliation engine of the card-game bot   *)
(* (src/card_predictor.py, class CardPredictor).                            *)
(*                                                                         *)
(* Message texts are sequences of tokens.  One token stands for one glyph  *)
(* of the Python string (a suit emoji together with its variation          *)
(* selector is one token):                                                 *)
(*   "#"  "N" "n" "R" "X" "T"   the characters themselves                  *)
(*   "0" .. "9"                 decimal digits                             *)
(*   "(" ")"                    parentheses                                *)
(*   "S" "H" "D" "C"            the suits  spade, heart, diamond, club     *)
(*   "RH"                       the alternate (red) heart glyph            *)
(*   "FIN" "FIN2"               the completion indicators (check, shield)  *)
(*   "CLOCK" "PLAY" "CLOCK1" "ARROW"   the pending indicators              *)
(*   "-"                        any other character                        *)
(* Statuses: "PENDING" is the hourglass status, "OK0" / "OK1" the          *)
(* confirmed-immediately / confirmed-one-round-later statuses, "FAILED"    *)
(* the circle status, "waiting_next" the internal status of the source.    *)
(***************************************************************************)
EXTENDS Integers, Sequences, FiniteSets

VARIABLES
    predictions,           \* self.predictions: target game -> record
    processed_messages,    \* self.processed_messages (fingerprints)
    temporary_messages,    \* self.temporary_messages: game -> text
    last_prediction_time,  \* self.last_prediction_time (0 = none stored)
    prediction_cooldown,   \* self.prediction_cooldown, seconds
    redirect_channels,     \* self.redirect_channels: source chat -> chat
    persisted,             \* the timestamp in the file .last_prediction_time
    store,                 \* that file: what a read finds, if a write succeeds
    now,                   \* the wall clock, time.time(), seconds
    ev,                    \* what the last operation did (observation only)
    prevCreate,            \* history: time of the last creation since a reset
    pubEver,               \* history: texts that ever led to a Publisher call
    pubSince,              \* history: the same, since the last reset
    configured,            \* history: the cooldown the operator set last
    createdUnder,          \* history: that cooldown at the last creation
    sent_predictions,      \* self.sent_predictions: game -> sent message
    txt,                   \* input of the pure text functions (SpecText)
    res,                   \* their results (SpecText)
    threads,               \* the deliveries being handled, one per thread
    arrived,               \* the feed: rounds 1..arrived have come, in order
    user_message_counts,   \* handlers.user_message_counts: user -> times
    accepted               \* history: the times of the accepted calls

vars == <<predictions, processed_messages, temporary_messages,
          last_prediction_time, prediction_cooldown, redirect_channels,
          persisted, now, ev, prevCreate, pubEver, pubSince, configured,
          createdUnder, sent_predictions, store, txt, res, threads,
          arrived, user_message_counts, accepted>>

\* the state of the rate limiter and its history
limiter == <<user_message_counts, accepted>>

---------------------------------------------------------------------------
(* Bounds of the model                                                     *)

MaxTextLen == 6      \* longest text the pure text functions are applied to
MaxTime == 31        \* the clock stops advancing here
MaxOtherCalls == 2   \* calls of is_rate_limited accepted for the other user

---------------------------------------------------------------------------
(* Constants of the source                                                 *)

NoGame == -1         \* extract_game_number returning None
NoId == 0            \* message_id None (falsy, like 0, in `if not message_id`)
NoSuit == "None"     \* check_mirror_rule returning None
\* chat ids are kept as their decimal text
PREDICTION_CHANNEL_ID == "-1002646551216"
TARGET_CHANNEL_ID == "-1002682552255"
DefaultCooldown == 30
TargetOffset == 2
MirrorThreshold == 3

Suits == {"S", "H", "D", "C"}
DigitToks == {"0", "1", "2", "3", "4", "5", "6", "7", "8", "9"}
PendingToks == {"CLOCK", "PLAY", "CLOCK1", "ARROW"}
CompletionToks == {"FIN", "FIN2"}

DigitVal(t) ==
    CASE t = "0" -> 0 [] t = "1" -> 1 [] t = "2" -> 2 [] t = "3" -> 3
      [] t = "4" -> 4 [] t = "5" -> 5 [] t = "6" -> 6 [] t = "7" -> 7
      [] t = "8" -> 8 [] t = "9" -> 9

---------------------------------------------------------------------------
(* Text functions                                                          *)

\* a normalisation that leaves the text as it is
normalize_emoji_none(m) == m

\* normalize_emoji: text.replace(red heart, heart)
normalize_emoji(m) ==
    [i \in 1..Len(m) |-> IF m[i] = "RH" THEN "H" ELSE m[i]]

\* str.count of a one-glyph pattern
count(m, t) == Cardinality({i \in 1..Len(m) : m[i] = t})

\* a search for a marker that never finds it
contains2_never(m, a, b) == FALSE

\* 'ab' in text, for a two-character pattern
contains2(m, a, b) == \E i \in 1..(Len(m) - 1) : m[i] = a /\ m[i + 1] = b

\* value of the decimal digits m[s..e]
RECURSIVE DecVal(_, _, _)
DecVal(m, s, e) ==
    IF e < s THEN 0 ELSE 10 * DecVal(m, s, e - 1) + DigitVal(m[e])

\* last index of the run of digits that starts at s (greedy \d+)
RECURSIVE DigitsEnd(_, _)
DigitsEnd(m, s) ==
    IF s + 1 <= Len(m) /\ m[s + 1] \in DigitToks THEN DigitsEnd(m, s + 1) ELSE s

\* where the digits of a match of #[nN]?(\d+) that starts at i begin; 0 if
\* the pattern does not match at i
GameDigitsAt(m, i) ==
    IF m[i] # "#" THEN 0
    ELSE LET s == IF i + 1 <= Len(m) /\ m[i + 1] \in {"n", "N"}
                  THEN i + 2 ELSE i + 1
         IN  IF s <= Len(m) /\ m[s] \in DigitToks THEN s ELSE 0

\* a search that takes the first run of digits for the round number, with or
\* without the '#'
extract_game_number_bare(m) ==
    LET hits == {i \in 1..Len(m) : m[i] \in DigitToks}
    IN  IF hits = {} THEN NoGame
        ELSE LET s == CHOOSE k \in hits : \A j \in hits : k <= j
             IN  DecVal(m, s, DigitsEnd(m, s))

\* extract_game_number: re.search, the leftmost match
extract_game_number(m) ==
    LET hits == {i \in 1..Len(m) : GameDigitsAt(m, i) # 0}
    IN  IF hits = {} THEN NoGame
        ELSE LET i == CHOOSE k \in hits : \A j \in hits : k <= j
                 s == GameDigitsAt(m, i)
             IN  DecVal(m, s, DigitsEnd(m, s))

has_pending_indicators(m) == \E i \in 1..Len(m) : m[i] \in PendingToks

has_completion_indicators(m) == \E i \in 1..Len(m) : m[i] \in CompletionToks

\* first index >= i holding a ")", 0 if there is none
RECURSIVE NextClose(_, _)
NextClose(m, i) ==
    IF i > Len(m) THEN 0
    ELSE IF m[i] = ")" THEN i ELSE NextClose(m, i + 1)

\* extract_parentheses_sections: re.findall(r'\(([^)]+)\)', text), scanning
\* from index i; matches do not overlap and an empty "()" is no match
RECURSIVE SectionsFrom(_, _)
SectionsFrom(m, i) ==
    IF i > Len(m) THEN << >>
    ELSE IF m[i] # "(" THEN SectionsFrom(m, i + 1)
    ELSE LET j == NextClose(m, i + 1)
         IN  IF j = 0 THEN << >>
             ELSE IF j = i + 1 THEN SectionsFrom(m, i + 1)
             ELSE <<SubSeq(m, i + 1, j - 1)>> \o SectionsFrom(m, j + 1)

extract_parentheses_sections(m) == SectionsFrom(m, 1)

\* a variant that looks for the costume in every parenthesized section
check_costume_in_any_parentheses(m, predicted_costume) ==
    LET matches == extract_parentheses_sections(normalize_emoji(m))
    IN  \E g \in 1..Len(matches) :
            \E k \in 1..Len(matches[g]) : matches[g][k] = predicted_costume

check_costume_in_first_parentheses(m, predicted_costume) ==
    LET matches == extract_parentheses_sections(normalize_emoji(m))
    IN  IF matches = << >> THEN FALSE
        ELSE /\ predicted_costume \in Suits
             /\ \E k \in 1..Len(matches[1]) : matches[1][k] = predicted_costume

mirror_map(c) ==
    CASE c = "H" -> "C" [] c = "S" -> "D" [] c = "D" -> "S" [] c = "C" -> "H"

\* a variant that answers as soon as some suit reaches the threshold
check_mirror_rule_any(m) ==
    LET n == normalize_emoji(m)
        candidates == {c \in Suits : count(n, c) >= MirrorThreshold}
    IN  IF candidates = {} THEN NoSuit
        ELSE mirror_map(CHOOSE c \in candidates : TRUE)

check_mirror_rule(m) ==
    LET n == normalize_emoji(m)
        candidates == {c \in Suits : count(n, c) >= MirrorThreshold}
    IN  IF Cardinality(candidates) # 1 THEN NoSuit
        ELSE mirror_map(CHOOSE c \in candidates : TRUE)

---------------------------------------------------------------------------
(* Incoming messages                                                       *)

\* round 1, three spades over both groups: predicts diamond for round 3
Msg1Spades == <<"#", "N", "1", "(", "S", "S", ")", "-", "(", "S", ")", "FIN">>
\* round 1, three hearts in both glyph variants: predicts club for round 3
Msg1Hearts == <<"#", "N", "1", "(", "H", "RH", "H", ")", "FIN">>
\* round 2, three spades: predicts diamond for round 4
Msg2Spades == <<"#", "n", "2", "(", "S", "S", "S", ")", "FIN2">>
\* round 3, diamond in the first group
Msg3Diamond == <<"#", "N", "3", "(", "D", ")", "-", "(", "H", ")", "FIN">>
\* round 3, club in the first group, diamond only in the second
Msg3Second == <<"#", "N", "3", "(", "C", ")", "-", "(", "D", ")", "FIN">>
\* round 4, diamond in the first group
Msg4Diamond == <<"#", "N", "4", "(", "D", "S", ")", "FIN">>
\* round 4, diamond and club only outside the parentheses
Msg4Outside == <<"#", "N", "4", "(", "S", ")", "D", "C", "FIN">>
\* round 5, diamond in the first group
Msg5Diamond == <<"#", "5", "(", "D", ")", "FIN">>
\* round 5, no parenthesized group
Msg5NoGroup == <<"#", "N", "5", "D", "FIN">>

MessageList == <<Msg1Spades, Msg1Hearts, Msg2Spades, Msg3Diamond, Msg3Second,
                 Msg4Diamond, Msg4Outside, Msg5Diamond, Msg5NoGroup>>

Messages == {MessageList[i] : i \in 1..Len(MessageList)}

\* round 1, three spades, neither a pending nor a completion indicator
Msg1Bare == <<"#", "N", "1", "(", "S", "S", "S", ")">>
\* round 3, three diamonds, a pending indicator and no completion indicator
Msg3Pending == <<"#", "N", "3", "(", "D", "D", "D", ")", "CLOCK">>
\* round 3, three diamonds, finalized
Msg3Creator == <<"#", "N", "3", "(", "D", "D", "D", ")", "FIN">>
\* round 3, three diamonds, finalized, with the exclusion marker #R
Msg3Void == <<"#", "N", "3", "(", "D", "D", "D", ")", "FIN", "#", "R">>
\* round 4, three diamonds, finalized, with the exclusion marker #X
Msg4Draw == <<"#", "N", "4", "(", "D", "D", "D", ")", "FIN", "#", "X">>
\* round 4, three hearts, finalized: predicts club for round 6
Msg4Hearts == <<"#", "N", "4", "(", "H", "H", "H", ")", "FIN">>

\* three diamonds, finalized, the round written without its '#': no round
\* number can be extracted
MsgNoNumber == <<"N", "3", "(", "D", "D", "D", ")", "FIN">>

\* the messages of every kind: finalized, bare, pending, excluded, unnumbered
IntakeList == <<Msg1Spades, Msg2Spades, Msg3Second, Msg1Bare, Msg3Pending,
                Msg3Creator, Msg3Void, Msg4Draw, Msg4Hearts, MsgNoNumber>>

IntakeMessages == {IntakeList[i] : i \in 1..Len(IntakeList)}

\* round 1, the three hearts of Msg1Hearts all in the red glyph
Msg1HeartsRed == <<"#", "N", "1", "(", "RH", "RH", "RH", ")", "FIN">>

\* two texts that differ only in the glyphs of their hearts, and two texts
\* for the round they predict: without and with a club in the first group
VariantMessages == {Msg1Hearts, Msg1HeartsRed, Msg3Creator, Msg3Second}

\* round 0, three spades, finalized
Msg0Spades == <<"#", "N", "0", "(", "S", "S", "S", ")", "FIN">>

\* the messages of every kind and the message of round 0
RoundZeroMessages == IntakeMessages \cup {Msg0Spades}

\* every incoming text of the model
AllMessageList == MessageList \o IntakeList \o <<Msg1HeartsRed, Msg0Spades>>

\* what the text functions give for an incoming message
ParseMessage(m) ==
    [game_number |-> extract_game_number(m),
     has_R |-> contains2(m, "#", "R"),
     has_X |-> contains2(m, "#", "X"),
     pending |-> has_pending_indicators(m),
     completion |-> has_completion_indicators(m),
     mirror |-> check_mirror_rule(m),
     first |-> [S |-> check_costume_in_first_parentheses(m, "S"),
                H |-> check_costume_in_first_parentheses(m, "H"),
                D |-> check_costume_in_first_parentheses(m, "D"),
                C |-> check_costume_in_first_parentheses(m, "C")]]

\* the rank of a text in the list of incoming messages
Rank(m) == CHOOSE i \in 1..Len(AllMessageList) : AllMessageList[i] = m

\* what the text functions give for every incoming message
ParseTable ==
    [m \in Messages \cup RoundZeroMessages \cup VariantMessages |->
        ParseMessage(m)]

Parsed(m) == ParseTable[m]

---------------------------------------------------------------------------
(* Prediction records and the predictor's operations                       *)

NoChat == "None"     \* chat_id None
NoUser == 0          \* user_id None

\* the user the handlers accept commands from, and another user
AUTHORIZED_USER_ID == 1190237801
OTHER_USER_ID == 42
Users == {AUTHORIZED_USER_ID, OTHER_USER_ID, NoUser}

\* the users is_rate_limited is called for
RateUsers == {AUTHORIZED_USER_ID, OTHER_USER_ID}

EmptyMap == << >>

\* f with key k set to v (dict assignment)
Put(f, k, v) == [x \in (DOMAIN f) \cup {k} |-> IF x = k THEN v ELSE f[x]]

\* f without key k (del f[k])
Del(f, k) == [x \in (DOMAIN f) \ {k} |-> f[x]]

\* the visible text of a prediction: target, costume and status glyph
PredictionText(target_game, costume, status) ==
    [game |-> target_game, costume |-> costume, status |-> status]

get_prediction_text(preds, target_game) ==
    PredictionText(target_game, preds[target_game].predicted_costume,
                   preds[target_game].status)

\* hash(message): the fingerprint is taken over the raw text, and two
\* different texts have different fingerprints (the text's rank in the list
\* of incoming messages)
message_hash(m) == Rank(m)

\* a gate that compares strictly
can_make_prediction_strict ==
    \/ last_prediction_time = 0
    \/ now - last_prediction_time > prediction_cooldown

can_make_prediction ==
    \/ last_prediction_time = 0
    \/ now - last_prediction_time >= prediction_cooldown

\* a duplicate check that only looks at the hourglass status
target_pending_only(target_game) ==
    /\ target_game \in DOMAIN predictions
    /\ predictions[target_game].status \in {"pending", "PENDING"}

\* the duplicate-target check of should_predict
target_pending(target_game) ==
    /\ target_game \in DOMAIN predictions
    /\ predictions[target_game].status \in {"pending", "PENDING", "waiting_next"}

\* a duplicate check that never finds the fingerprint
already_processed_never(m) == FALSE

\* the duplicate check of should_predict, by message hash
already_processed(m) == message_hash(m) \in processed_messages

\* a decision that marks the fingerprint before the cooldown check
should_predict_mark_first(m) ==
    LET g == Parsed(m).game_number
        No(tmp, done) == [should |-> FALSE, game |-> NoGame, costume |-> NoSuit,
                          temporary |-> tmp, processed |-> done]
        marked == processed_messages \cup {message_hash(m)}
    IN  IF g = NoGame \/ g = 0 THEN No(temporary_messages, processed_messages)
        ELSE IF Parsed(m).has_R \/ Parsed(m).has_X
             THEN No(temporary_messages, processed_messages)
        ELSE IF Parsed(m).pending /\ ~Parsed(m).completion
             THEN No(Put(temporary_messages, g, m), processed_messages)
        ELSE IF target_pending(g + TargetOffset)
             THEN No(temporary_messages, processed_messages)
        ELSE LET tmp == IF Parsed(m).completion
                        THEN Del(temporary_messages, g)
                        ELSE temporary_messages
             IN  IF already_processed(m) THEN No(tmp, processed_messages)
                 ELSE IF ~can_make_prediction THEN No(tmp, marked)
                 ELSE IF Parsed(m).mirror = NoSuit THEN No(tmp, marked)
                 ELSE [should |-> TRUE, game |-> g,
                       costume |-> Parsed(m).mirror, temporary |-> tmp,
                       processed |-> marked]

\* should_predict: the decision, and the stash and fingerprint set it leaves
should_predict(m) ==
    LET g == Parsed(m).game_number
        No(tmp) == [should |-> FALSE, game |-> NoGame, costume |-> NoSuit,
                    temporary |-> tmp, processed |-> processed_messages]
    IN  IF g = NoGame \/ g = 0 THEN No(temporary_messages)
        ELSE IF Parsed(m).has_R THEN No(temporary_messages)
        ELSE IF Parsed(m).has_X THEN No(temporary_messages)
        ELSE IF Parsed(m).pending /\ ~Parsed(m).completion
             THEN No(Put(temporary_messages, g, m))
        ELSE IF target_pending(g + TargetOffset) THEN No(temporary_messages)
        ELSE LET tmp == IF Parsed(m).completion
                        THEN Del(temporary_messages, g)
                        ELSE temporary_messages
                 mirror_prediction == Parsed(m).mirror
             IN  IF ~can_make_prediction THEN No(tmp)
                 ELSE IF mirror_prediction = NoSuit THEN No(tmp)
                 ELSE IF already_processed(m) THEN No(tmp)
                 ELSE [should |-> TRUE, game |-> g,
                       costume |-> mirror_prediction, temporary |-> tmp,
                       processed |-> processed_messages \cup {message_hash(m)}]

\* a creation that records the target round as the source round
make_prediction_from_target(preds, game_number, predicted_costume, sent_message_id, sent_chat_id) ==
    LET target_game == game_number + TargetOffset
    IN  Put(preds, target_game,
            [predicted_costume |-> predicted_costume,
             status |-> "PENDING",
             predicted_from |-> target_game,
             message_id |-> sent_message_id,
             chat_id |-> sent_chat_id,
             timestamp |-> now,
             verified |-> FALSE,
             verification_game |-> NoGame,
             verified_at |-> 0])

\* make_prediction: the ledger after the record for game_number + 2 is
\* stored, whatever was stored there before.  verification_game and
\* verified_at, absent from a new record, are NoGame and 0; the fields
\* verification_count (always 0) and message_text are not kept.
make_prediction(preds, game_number, predicted_costume, sent_message_id, sent_chat_id) ==
    LET target_game == game_number + TargetOffset
    IN  Put(preds, target_game,
            [predicted_costume |-> predicted_costume,
             status |-> "PENDING",
             predicted_from |-> game_number,
             message_id |-> sent_message_id,
             chat_id |-> sent_chat_id,
             timestamp |-> now,
             verified |-> FALSE,
             verification_game |-> NoGame,
             verified_at |-> 0])

\* the closing of a record: status, verified flag, game and time
Closed(rec, status, game_number) ==
    [rec EXCEPT !.status = status, !.verified = TRUE,
                !.verification_game = game_number, !.verified_at = now]

\* an immediate miss that also asks for an edit of the published text
immediate_miss_edited(preds, game_number) ==
    [preds |-> [preds EXCEPT ![game_number].status = "waiting_next"],
     verified |-> game_number, attempts |-> <<game_number>>]

\* verify_prediction, the costume is not in the first group of round N+2:
\* the record waits for round N+3, nothing is edited
immediate_miss(preds, game_number) ==
    [preds |-> [preds EXCEPT ![game_number].status = "waiting_next"],
     verified |-> game_number, attempts |-> << >>]

\* verify_prediction, the costume is in the first group of round N+2
immediate_hit(preds, game_number) ==
    [preds |-> [preds EXCEPT ![game_number] = Closed(@, "OK0", game_number)],
     verified |-> game_number, attempts |-> <<game_number>>]

\* verify_prediction, round N+3 of a record that was waiting
delayed_check(preds, target_game, game_number, found) ==
    [preds |-> [preds EXCEPT ![target_game] =
                   Closed(@, IF found THEN "OK1" ELSE "FAILED", game_number)],
     verified |-> target_game, attempts |-> <<target_game>>]

\* a verification that closes the waiting record of the round before as
\* well as checking the record of the message's own round
verify_prediction_both(preds, m) ==
    LET game_number == Parsed(m).game_number
        None == [preds |-> preds, verified |-> NoGame, attempts |-> << >>]
        own == IF game_number \notin DOMAIN preds THEN None
               ELSE IF Parsed(m).first[preds[game_number].predicted_costume]
               THEN immediate_hit(preds, game_number)
               ELSE immediate_miss(preds, game_number)
        target_game == game_number - 1
    IN  IF ~Parsed(m).completion \/ game_number = NoGame THEN None
        ELSE IF target_game \in DOMAIN preds
                 /\ preds[target_game].status = "waiting_next"
        THEN delayed_check(own.preds, target_game, game_number,
                 Parsed(m).first[preds[target_game].predicted_costume])
        ELSE own

\* a verification that is skipped when the message has just created a record
verify_prediction_unless_created(preds, m) ==
    LET game_number == Parsed(m).game_number
        None == [preds |-> preds, verified |-> NoGame, attempts |-> << >>]
    IN  IF preds # predictions THEN None
        ELSE IF ~Parsed(m).completion \/ game_number = NoGame THEN None
        ELSE IF game_number \in DOMAIN preds
        THEN IF Parsed(m).first[preds[game_number].predicted_costume]
             THEN immediate_hit(preds, game_number)
             ELSE immediate_miss(preds, game_number)
        ELSE IF (game_number - 1) \in DOMAIN preds
                 /\ preds[game_number - 1].status = "waiting_next"
        THEN delayed_check(preds, game_number - 1, game_number,
                 Parsed(m).first[preds[game_number - 1].predicted_costume])
        ELSE None

\* a verification that does not look for the completion indicator
verify_prediction_any(preds, m) ==
    LET game_number == Parsed(m).game_number
    IN  IF game_number \in DOMAIN preds
        THEN IF Parsed(m).first[preds[game_number].predicted_costume]
             THEN immediate_hit(preds, game_number)
             ELSE immediate_miss(preds, game_number)
        ELSE [preds |-> preds, verified |-> NoGame, attempts |-> << >>]

\* a verification that checks the record two rounds ahead of the message,
\* the one the message itself may have created
verify_prediction_ahead(preds, m) ==
    LET game_number == Parsed(m).game_number
        target_game == game_number + TargetOffset
        None == [preds |-> preds, verified |-> NoGame, attempts |-> << >>]
    IN  IF ~Parsed(m).completion \/ game_number = NoGame THEN None
        ELSE IF target_game \in DOMAIN preds
        THEN IF Parsed(m).first[preds[target_game].predicted_costume]
             THEN immediate_hit(preds, target_game)
             ELSE immediate_miss(preds, target_game)
        ELSE None

\* a verification that gives a waiting record two rounds of grace
verify_prediction_late(preds, m) ==
    LET game_number == Parsed(m).game_number
        None == [preds |-> preds, verified |-> NoGame, attempts |-> << >>]
        waiting == {t \in {game_number - 1, game_number - 2} :
                       /\ t \in DOMAIN preds
                       /\ preds[t].status = "waiting_next"}
    IN  IF ~Parsed(m).completion \/ game_number = NoGame THEN None
        ELSE IF game_number \in DOMAIN preds
        THEN IF Parsed(m).first[preds[game_number].predicted_costume]
             THEN immediate_hit(preds, game_number)
             ELSE immediate_miss(preds, game_number)
        ELSE IF waiting # {}
        THEN LET target_game == CHOOSE t \in waiting : \A u \in waiting : t <= u
             IN  delayed_check(preds, target_game, game_number,
                     Parsed(m).first[preds[target_game].predicted_costume])
        ELSE None

\* verify_prediction: the ledger it leaves, the key of the record it returns
\* (NoGame for None) and the targets it calls edit_prediction_message for.
\* Line 460 of the source is indented one level too little; the `if` of line
\* 458 is read with the body its comment and its `return None` give it.
verify_prediction(preds, m) ==
    LET game_number == Parsed(m).game_number
        None == [preds |-> preds, verified |-> NoGame, attempts |-> << >>]
    IN  IF ~Parsed(m).completion THEN None
        ELSE IF game_number = NoGame THEN None
        ELSE IF game_number \in DOMAIN preds
        THEN IF Parsed(m).first[preds[game_number].predicted_costume]
             THEN immediate_hit(preds, game_number)
             ELSE immediate_miss(preds, game_number)
        ELSE LET target_game == game_number - 1
             IN  IF target_game \in DOMAIN preds
                      /\ preds[target_game].status = "waiting_next"
                 THEN delayed_check(preds, target_game, game_number,
                          Parsed(m).first[preds[target_game].predicted_costume])
                 ELSE None

\* an edit that does not look at the stored message id
edit_prediction_message_unchecked(preds, target_game, editok) ==
    IF target_game \notin DOMAIN preds THEN << >>
    ELSE <<[chat_id |-> preds[target_game].chat_id,
            message_id |-> preds[target_game].message_id,
            text |-> get_prediction_text(preds, target_game),
            ok |-> editok]>>

\* an edit that addresses the message by the record's target round
edit_prediction_message_by_target(preds, target_game, editok) ==
    IF target_game \notin DOMAIN preds THEN << >>
    ELSE IF preds[target_game].message_id = NoId THEN << >>
    ELSE <<[chat_id |-> preds[target_game].chat_id,
            message_id |-> target_game,
            text |-> get_prediction_text(preds, target_game),
            ok |-> editok]>>

\* edit_prediction_message: the Editor calls it makes (none without a record
\* or a message id).  The record's message_text, a copy of the text last
\* sent, is not kept: nothing here reads it.
edit_prediction_message(preds, target_game, editok) ==
    IF target_game \notin DOMAIN preds THEN << >>
    ELSE IF preds[target_game].message_id = NoId THEN << >>
    ELSE <<[chat_id |-> preds[target_game].chat_id,
            message_id |-> preds[target_game].message_id,
            text |-> get_prediction_text(preds, target_game),
            ok |-> editok]>>

\* what a read of the file .last_prediction_time finds: the text of the
\* number `persisted` (0 when there is no file), a text float() raises
\* ValueError for, a file open() raises for, or the text inf, which float()
\* accepts
StoreKinds == {"number", "rejected", "unreadable", "infinite"}

\* float('inf'): later than every instant
INFINITY == 1000000

\* _load_last_prediction_time: the exceptions are caught and give 0.0
load_last_prediction_time ==
    CASE store.kind = "number" -> persisted
      [] store.kind = "infinite" -> INFINITY
      [] OTHER -> 0

\* a save that writes nothing
save_last_prediction_time_dropped(t) == persisted

\* _save_last_prediction_time(): the number in the file afterwards; a
\* failed write is caught and leaves the file as it was
save_last_prediction_time(t) == IF store.writable THEN t ELSE persisted

store_after_save ==
    IF store.writable THEN [store EXCEPT !.kind = "number"] ELSE store

---------------------------------------------------------------------------
(* The collaborators and the clock                                         *)

\* what bot.send_message does: it returns a message with an id, returns an
\* object without one, or raises
PublishOutcomes == {[ok |-> TRUE, message_id |-> 11],
                    [ok |-> TRUE, message_id |-> NoId],
                    [ok |-> FALSE, message_id |-> NoId]}

\* the Publisher was not called
NotSent == [ok |-> FALSE, message_id |-> NoId]

\* the instants at which the clock is read: the start, and the instants
\* from one second before the default cooldown has elapsed since the start
Instants == {1} \cup (DefaultCooldown..MaxTime)

\* the record of what an operation did: the operation and its message, the
\* target of the record it created (NoGame if none), its Publisher calls,
\* its Editor calls, the targets it called edit_prediction_message for, the
\* key of the record verify_prediction returned with the status that record
\* had before, and whether the result carries made_prediction; chat and
\* user are the chat_id and user_id the operation was called with
Event(op, m, made, publishes, edits, attempts, verified, was, returned_made) ==
    [op |-> op, msg |-> m, made |-> made, publishes |-> publishes,
     edits |-> edits, attempts |-> attempts, verified |-> verified,
     was |-> was, returned_made |-> returned_made,
     chat |-> NoChat, user |-> NoUser]

\* no text function has been applied yet
NoResult == [done |-> FALSE, normalized |-> << >>, mirror |-> NoSuit,
             first |-> [c \in Suits |-> FALSE]]

\* the messages come in no particular order: no feed position is kept
NoFeed == NoGame

\* the threads of the web server that handle a delivery each
Deliveries == {1, 2}

\* a thread that handles no delivery
Idle == [pc |-> "idle", msg |-> << >>, made |-> NoGame, at |-> 0]

Quiet(op) == Event(op, << >>, NoGame, << >>, << >>, << >>, NoGame, "none", FALSE)

---------------------------------------------------------------------------
(* The state machine                                                       *)

\* a new CardPredictor, started with no stored timestamp file, and the
\* observers of the model at their start
Constructed ==
    /\ predictions = EmptyMap
    /\ processed_messages = {}
    /\ temporary_messages = EmptyMap
    /\ last_prediction_time = 0
    /\ prediction_cooldown = DefaultCooldown
    /\ redirect_channels = EmptyMap
    /\ persisted = 0
    /\ store = [kind |-> "number", writable |-> TRUE]
    /\ configured = DefaultCooldown
    /\ createdUnder = DefaultCooldown
    /\ sent_predictions = EmptyMap
    /\ now = 1
    /\ ev = Quiet("init")
    /\ prevCreate = 0
    /\ pubEver = {}
    /\ pubSince = {}
    /\ txt = << >>
    /\ res = NoResult
    /\ threads = [d \in Deliveries |-> Idle]
    /\ user_message_counts = [u \in RateUsers |-> << >>]
    /\ accepted = [u \in RateUsers |-> << >>]

\* a new CardPredictor, started with no stored timestamp file
Init == Constructed /\ arrived = NoFeed

\* process_incoming_telegram_message(bot, chat_id, message_text): the
\* decision and the creation, the Publisher call, the verification and its
\* Editor call.  The Publisher and the Editor answer only when they are
\* called; sp and vr are the results of the calls of should_predict and
\* verify_prediction, p2 is the ledger between the two steps.
process_incoming_telegram_message(chat_id, m) ==
    \E sp \in {should_predict(m)} :
    LET create == sp.should /\ sp.game # 0 /\ sp.costume # NoSuit
        target_game == sp.game + TargetOffset
        p1 == IF create
              THEN make_prediction(predictions, sp.game, sp.costume, NoId,
                                   PREDICTION_CHANNEL_ID)
              ELSE predictions
        publishes(ok) == IF create
                         THEN <<[chat_id |-> PREDICTION_CHANNEL_ID,
                                 text |-> get_prediction_text(p1, target_game),
                                 ok |-> ok]>>
                         ELSE << >>
    IN  \E sent \in IF create THEN PublishOutcomes ELSE {NotSent} :
        \E p2 \in {IF create /\ sent.ok
                   THEN [p1 EXCEPT ![target_game].message_id = sent.message_id,
                                   ![target_game].chat_id = PREDICTION_CHANNEL_ID]
                   ELSE p1} :
        \E vr \in {verify_prediction(p2, m)} :
        LET edit(editok) == IF vr.attempts = << >> THEN << >>
                            ELSE edit_prediction_message(vr.preds, vr.attempts[1],
                                                         editok)
        IN  \E editok \in IF edit(TRUE) # << >> THEN BOOLEAN ELSE {TRUE} :
                /\ predictions' = vr.preds
                /\ processed_messages' = sp.processed
                /\ temporary_messages' = sp.temporary
                /\ last_prediction_time' = IF create THEN now ELSE last_prediction_time
                /\ persisted' = IF create THEN save_last_prediction_time(now)
                                        ELSE persisted
                /\ store' = IF create THEN store_after_save ELSE store
                /\ ev' = [Event("process", m,
                                IF create THEN target_game ELSE NoGame,
                                publishes(sent.ok), edit(editok), vr.attempts,
                                vr.verified,
                                IF vr.verified = NoGame THEN "none"
                                ELSE p2[vr.verified].status,
                                create /\ sent.ok)
                           EXCEPT !.chat = chat_id]
                /\ prevCreate' = IF create THEN now ELSE prevCreate
                /\ pubEver' = IF create THEN pubEver \cup {m} ELSE pubEver
                /\ pubSince' = IF create THEN pubSince \cup {m} ELSE pubSince
                /\ createdUnder' = IF create THEN configured ELSE createdUnder
                /\ arrived' = IF arrived # NoFeed /\ Parsed(m).completion
                                  /\ Parsed(m).game_number = arrived + 1
                             THEN arrived + 1 ELSE arrived
                /\ UNCHANGED <<prediction_cooldown, redirect_channels, now,
                               configured, sent_predictions, txt, res,
                               threads, limiter>>

\* reset_predictions()
reset_predictions ==
    /\ predictions' = EmptyMap
    /\ processed_messages' = {}
    /\ temporary_messages' = EmptyMap
    /\ sent_predictions' = EmptyMap
    /\ last_prediction_time' = 0
    /\ persisted' = save_last_prediction_time(0)
    /\ store' = store_after_save
    /\ ev' = Quiet("reset")
    /\ prevCreate' = 0
    /\ pubSince' = {}
    /\ UNCHANGED <<prediction_cooldown, redirect_channels, now, pubEver,
                   configured, createdUnder, txt, res, threads, arrived,
                   limiter>>

\* time passes
Tick ==
    /\ \E t \in Instants : t > now /\ now' = t
    /\ ev' = Quiet("tick")
    /\ UNCHANGED <<predictions, processed_messages, temporary_messages,
                   last_prediction_time, prediction_cooldown,
                   redirect_channels, persisted, prevCreate, pubEver,
                   pubSince, configured, createdUnder, sent_predictions,
                   store, txt, res, threads, arrived, limiter>>

Next ==
    \/ \E m \in Messages : process_incoming_telegram_message(TARGET_CHANNEL_ID, m)
    \/ reset_predictions
    \/ Tick

Spec == Init /\ [][Next]_vars

---------------------------------------------------------------------------
(* The ledger's create operation called directly with the default handle   *)
(* arguments, make_prediction(game_number, predicted_costume)              *)

make_prediction_call(game_number, predicted_costume) ==
    /\ predictions' = make_prediction(predictions, game_number,
                                      predicted_costume, NoId, NoChat)
    /\ last_prediction_time' = now
    /\ persisted' = save_last_prediction_time(now)
    /\ store' = store_after_save
    /\ ev' = Event("make_prediction", << >>, game_number + TargetOffset,
                   << >>, << >>, << >>, NoGame, "none", FALSE)
    /\ prevCreate' = now
    /\ createdUnder' = configured
    /\ UNCHANGED <<processed_messages, temporary_messages,
                   prediction_cooldown, redirect_channels, now, pubEver,
                   pubSince, configured, sent_predictions, txt, res, threads,
                   arrived, limiter>>

NextLedger ==
    \/ \E m \in Messages : process_incoming_telegram_message(TARGET_CHANNEL_ID, m)
    \/ Tick
    \/ make_prediction_call(1, "D")

SpecLedger == Init /\ [][NextLedger]_vars

---------------------------------------------------------------------------
(* The engine fed with messages of every kind                              *)

NextIntake ==
    \/ \E m \in IntakeMessages :
          process_incoming_telegram_message(TARGET_CHANNEL_ID, m)
    \/ Tick

SpecIntake == Init /\ [][NextIntake]_vars

---------------------------------------------------------------------------
(* The engine fed with texts that differ only in their heart glyphs        *)

NextVariants ==
    \/ \E m \in VariantMessages :
          process_incoming_telegram_message(TARGET_CHANNEL_ID, m)
    \/ Tick

SpecVariants == Init /\ [][NextVariants]_vars

---------------------------------------------------------------------------
(* The engine fed with messages of every kind and with a message of round 0 *)

NextRoundZero ==
    \/ \E m \in RoundZeroMessages :
          process_incoming_telegram_message(TARGET_CHANNEL_ID, m)
    \/ Tick

SpecRoundZero == Init /\ [][NextRoundZero]_vars

---------------------------------------------------------------------------
(* The redirection table                                                   *)

\* the chats a message can arrive from: the watched channel and another one
OTHER_CHAT_ID == "-100111"
SourceChats == {TARGET_CHANNEL_ID, OTHER_CHAT_ID}

\* the destinations the host can redirect to
REDIRECT_CHAT_ID == "-100222"
RedirectTargets == {REDIRECT_CHAT_ID, PREDICTION_CHANNEL_ID}

\* get_redirect_channel: redirect_channels.get(source, PREDICTION_CHANNEL_ID)
get_redirect_channel(source_chat_id) ==
    IF source_chat_id \in DOMAIN redirect_channels
    THEN redirect_channels[source_chat_id]
    ELSE PREDICTION_CHANNEL_ID

\* set_redirect_channel: one entry of the table is written
set_redirect_channel(source_chat_id, target_chat_id) ==
    /\ redirect_channels' = Put(redirect_channels, source_chat_id, target_chat_id)
    /\ ev' = [Quiet("set_redirect") EXCEPT !.chat = source_chat_id]
    /\ UNCHANGED <<predictions, processed_messages, temporary_messages,
                   last_prediction_time, prediction_cooldown, persisted, now,
                   prevCreate, pubEver, pubSince, configured, createdUnder,
                   sent_predictions, store, txt, res, threads, arrived,
                   limiter>>

\* the predictor with its redirection table: messages arrive from several
\* chats and the host sets redirections
RedirectMessages == {Msg1Spades, Msg2Spades, Msg3Creator, Msg3Second,
                     Msg4Hearts}

NextRedirect ==
    \/ \E c \in SourceChats : \E m \in RedirectMessages :
           process_incoming_telegram_message(c, m)
    \/ \E c \in SourceChats : \E d \in RedirectTargets :
           set_redirect_channel(c, d)
    \/ Tick

SpecRedirect == Init /\ [][NextRedirect]_vars


---------------------------------------------------------------------------
(* The host: commands, resets and restarts                                 *)

\* the limits of /cooldown
MinCooldown == 30
MaxCooldown == 600

\* _is_authorized_user
is_authorized_user(user_id) == user_id = AUTHORIZED_USER_ID

\* str.split(): the runs of characters between the blanks
RECURSIVE split_from(_, _, _)
split_from(t, i, cur) ==
    IF i > Len(t) THEN (IF cur = << >> THEN << >> ELSE <<cur>>)
    ELSE IF t[i] = " "
    THEN (IF cur = << >> THEN << >> ELSE <<cur>>) \o split_from(t, i + 1, << >>)
    ELSE split_from(t, i + 1, Append(cur, t[i]))

split(t) == split_from(t, 1, << >>)

\* int(s) for a string of digits with an optional minus sign; ok is FALSE
\* where int raises ValueError
int(a) ==
    LET digits(b) == b # << >> /\ \A i \in 1..Len(b) : b[i] \in DigitToks
    IN  IF digits(a) THEN [ok |-> TRUE, value |-> DecVal(a, 1, Len(a))]
        ELSE IF Len(a) >= 2 /\ a[1] = "-" /\ digits(Tail(a))
        THEN [ok |-> TRUE, value |-> 0 - DecVal(a, 2, Len(a))]
        ELSE [ok |-> FALSE, value |-> 0]

\* a range check without the upper limit
invalid_delay_low_only(seconds) == seconds < MinCooldown

\* seconds < 30 or seconds > 600
invalid_delay(seconds) == seconds < MinCooldown \/ seconds > MaxCooldown

\* the texts of the /cooldown command: no value, values around both limits,
\* a negative value, a value with a leading zero, a word, two values
CooldownTexts ==
    {<<"/cooldown">>,
     <<"/cooldown", " ", "2", "9">>,
     <<"/cooldown", " ", "3", "0">>,
     <<"/cooldown", " ", "0", "3", "1">>,
     <<"/cooldown", " ", " ", "6", "0", "0">>,
     <<"/cooldown", " ", "6", "0", "1">>,
     <<"/cooldown", " ", "-", "4", "5">>,
     <<"/cooldown", " ", "x">>,
     <<"/cooldown", " ", "3", "1", " ", "3", "1">>}

\* the value /cooldown stores for a text from a user; NoCooldown when the
\* command stores nothing
NoCooldown == 0

cooldown_value(text, user_id) ==
    LET parts == split(text)
    IN  IF user_id # NoUser /\ ~is_authorized_user(user_id) THEN NoCooldown
        ELSE IF Len(parts) = 1 THEN NoCooldown
        ELSE IF Len(parts) # 2 THEN NoCooldown
        ELSE IF ~int(parts[2]).ok THEN NoCooldown
        ELSE IF invalid_delay(int(parts[2]).value) THEN NoCooldown
        ELSE int(parts[2]).value

\* _handle_cooldown_command
cooldown_command(text, user_id) ==
    \E seconds \in {cooldown_value(text, user_id)} :
        /\ prediction_cooldown' =
              IF seconds = NoCooldown THEN prediction_cooldown ELSE seconds
        /\ configured' = IF seconds = NoCooldown THEN configured ELSE seconds
        /\ ev' = [Quiet("cooldown") EXCEPT !.msg = text, !.user = user_id]
        /\ UNCHANGED <<predictions, processed_messages, temporary_messages,
                       last_prediction_time, redirect_channels, persisted,
                       now, prevCreate, pubEver, pubSince, createdUnder,
                       sent_predictions, store, txt, res, threads, arrived,
                       limiter>>

\* the process is started again: CardPredictor() with the timestamp file
\* the previous process left
restart ==
    /\ predictions' = EmptyMap
    /\ processed_messages' = {}
    /\ temporary_messages' = EmptyMap
    /\ sent_predictions' = EmptyMap
    /\ redirect_channels' = EmptyMap
    /\ last_prediction_time' = load_last_prediction_time
    /\ prediction_cooldown' = DefaultCooldown
    /\ ev' = Quiet("restart")
    /\ UNCHANGED <<persisted, now, prevCreate, pubEver, pubSince, configured,
                   createdUnder, store, txt, res, threads, arrived, limiter>>

\* reset_all_predictions()
reset_all_predictions ==
    /\ predictions' = EmptyMap
    /\ processed_messages' = {}
    /\ temporary_messages' = EmptyMap
    /\ sent_predictions' = EmptyMap
    /\ redirect_channels' = EmptyMap
    /\ last_prediction_time' = 0
    /\ persisted' = save_last_prediction_time(0)
    /\ store' = store_after_save
    /\ ev' = Quiet("reset_all")
    /\ prevCreate' = 0
    /\ pubSince' = {}
    /\ UNCHANGED <<prediction_cooldown, now, pubEver, configured,
                   createdUnder, txt, res, threads, arrived, limiter>>

\* _handle_reset_command: for an accepted user it replaces sent_predictions
\* by an empty dictionary; nothing else is written
reset_command(user_id) ==
    /\ sent_predictions' =
          IF user_id # NoUser /\ ~is_authorized_user(user_id)
          THEN sent_predictions ELSE EmptyMap
    /\ ev' = [Quiet("reset_command") EXCEPT !.user = user_id]
    /\ UNCHANGED <<predictions, processed_messages, temporary_messages,
                   last_prediction_time, prediction_cooldown,
                   redirect_channels, persisted, now, prevCreate, pubEver,
                   pubSince, configured, createdUnder, store, txt, res,
                   threads, arrived, limiter>>

\* the messages the host forwards here
HostMessages == {Msg1Spades, Msg3Creator}

NextHost ==
    \/ \E m \in HostMessages :
          process_incoming_telegram_message(TARGET_CHANNEL_ID, m)
    \/ \E text \in CooldownTexts : \E user_id \in Users :
          cooldown_command(text, user_id)
    \/ set_redirect_channel(TARGET_CHANNEL_ID, REDIRECT_CHAT_ID)
    \/ restart
    \/ reset_predictions
    \/ reset_all_predictions
    \/ \E user_id \in Users : reset_command(user_id)
    \/ Tick

SpecHost == Init /\ [][NextHost]_vars

---------------------------------------------------------------------------
(* The predictor over a timestamp file that can be damaged or unwritable   *)

\* the file is damaged behind the program's back
store_damaged(kind) ==
    /\ store' = [store EXCEPT !.kind = kind]
    /\ ev' = Quiet("store")
    /\ UNCHANGED <<predictions, processed_messages, temporary_messages,
                   last_prediction_time, prediction_cooldown,
                   redirect_channels, persisted, now, prevCreate, pubEver,
                   pubSince, configured, createdUnder, sent_predictions, txt,
                   res, threads, arrived, limiter>>

\* writes to the file start or stop failing
store_writable(writable) ==
    /\ store' = [store EXCEPT !.writable = writable]
    /\ ev' = Quiet("store")
    /\ UNCHANGED <<predictions, processed_messages, temporary_messages,
                   last_prediction_time, prediction_cooldown,
                   redirect_channels, persisted, now, prevCreate, pubEver,
                   pubSince, configured, createdUnder, sent_predictions, txt,
                   res, threads, arrived, limiter>>

NextStore ==
    \/ \E m \in HostMessages :
          process_incoming_telegram_message(TARGET_CHANNEL_ID, m)
    \/ restart
    \/ reset_predictions
    \/ reset_all_predictions
    \/ \E kind \in StoreKinds \ {"number"} : store_damaged(kind)
    \/ \E writable \in BOOLEAN : store_writable(writable)
    \/ Tick

SpecStore == Init /\ [][NextStore]_vars

---------------------------------------------------------------------------
(* The webhook handlers (src/handlers.py) in front of the predictor.       *)
(* CardPredictor has no method _verify_prediction_common: the call that    *)
(* ends both handlers raises AttributeError, which the handler's own       *)
(* `except Exception` logs, so the handlers verify nothing.                *)

\* PREDICTION_CHANNEL_ID of src/handlers.py
HANDLERS_PREDICTION_CHANNEL_ID == "-1002887687164"

\* TelegramHandlers.get_redirect_channel: the predictor's table, then the
\* handlers' own table (only /redi writes it; it stays empty here), then the
\* handlers' default
handlers_get_redirect_channel(source_chat_id) ==
    IF source_chat_id \in DOMAIN redirect_channels
    THEN redirect_channels[source_chat_id]
    ELSE HANDLERS_PREDICTION_CHANNEL_ID

\* message_id of an incoming update: absent, or a number
UPDATE_MESSAGE_ID == 7
UpdateIds == {NoId, UPDATE_MESSAGE_ID}

\* _handle_message for a text that is no command, in a group or channel:
\* _process_card_message stashes a text with a pending indicator under the
\* update's message id, _process_verification_on_normal_message ends in the
\* missing method.  Nothing here calls should_predict or make_prediction.
handle_message(sender_chat_id, message_id, m) ==
    /\ temporary_messages' =
          IF sender_chat_id = TARGET_CHANNEL_ID /\ m # << >>
                /\ Parsed(m).pending /\ message_id # NoId
          THEN Put(temporary_messages, message_id, m)
          ELSE temporary_messages
    /\ ev' = [Event("message", m, NoGame, << >>, << >>, << >>, NoGame,
                    "none", FALSE) EXCEPT !.chat = sender_chat_id]
    /\ UNCHANGED <<predictions, processed_messages, last_prediction_time,
                   prediction_cooldown, redirect_channels, persisted, now,
                   prevCreate, pubEver, pubSince, configured, createdUnder,
                   sent_predictions, store, txt, res, threads, arrived,
                   limiter>>

\* _handle_edited_message: for a finalized text of the watched channel,
\* should_predict, make_prediction with the default handle arguments, the
\* send to the redirect channel and the storing of the sent message under
\* game_number + 1
handle_edited_message(sender_chat_id, m) ==
    \E sp \in {IF sender_chat_id = TARGET_CHANNEL_ID /\ Parsed(m).completion
               THEN should_predict(m)
               ELSE [should |-> FALSE, game |-> NoGame, costume |-> NoSuit,
                     temporary |-> temporary_messages,
                     processed |-> processed_messages]} :
    LET create == sp.should /\ sp.game # NoGame /\ sp.costume # NoSuit
        target_channel == handlers_get_redirect_channel(sender_chat_id)
        prediction == PredictionText(sp.game + TargetOffset, sp.costume, "PENDING")
    IN  \E sent \in IF create THEN PublishOutcomes ELSE {NotSent} :
            /\ predictions' =
                  IF create
                  THEN make_prediction(predictions, sp.game, sp.costume, NoId, NoChat)
                  ELSE predictions
            /\ processed_messages' = sp.processed
            /\ temporary_messages' = sp.temporary
            /\ last_prediction_time' = IF create THEN now ELSE last_prediction_time
            /\ persisted' = IF create THEN save_last_prediction_time(now)
                                    ELSE persisted
            /\ store' = IF create THEN store_after_save ELSE store
            /\ sent_predictions' =
                  IF create /\ sent.ok /\ sent.message_id # NoId
                  THEN Put(sent_predictions, sp.game + 1,
                           [chat_id |-> target_channel,
                            message_id |-> sent.message_id])
                  ELSE sent_predictions
            /\ ev' = [Event("edited_message", m,
                            IF create THEN sp.game + TargetOffset ELSE NoGame,
                            IF create
                            THEN <<[chat_id |-> target_channel,
                                    text |-> prediction, ok |-> sent.ok]>>
                            ELSE << >>,
                            << >>, << >>, NoGame, "none", FALSE)
                        EXCEPT !.chat = sender_chat_id]
            /\ prevCreate' = IF create THEN now ELSE prevCreate
            /\ createdUnder' = IF create THEN configured ELSE createdUnder
            /\ pubEver' = IF create THEN pubEver \cup {m} ELSE pubEver
            /\ pubSince' = IF create THEN pubSince \cup {m} ELSE pubSince
            /\ UNCHANGED <<prediction_cooldown, redirect_channels, now,
                           configured, txt, res, threads, arrived, limiter>>

\* the updates Telegram delivers: a text arrives as a message or as an
\* edited message, from the watched channel or from another chat
NextWebhook ==
    \/ \E c \in SourceChats : \E id \in UpdateIds : \E m \in IntakeMessages :
          handle_message(c, id, m)
    \/ \E c \in SourceChats : \E m \in IntakeMessages :
          handle_edited_message(c, m)
    \/ set_redirect_channel(TARGET_CHANNEL_ID, REDIRECT_CHAT_ID)
    \/ Tick

SpecWebhook == Init /\ [][NextWebhook]_vars

---------------------------------------------------------------------------
(* Two deliveries handled by two threads of the web server.  main.py       *)
(* starts the server with app.run(...): each request gets a thread, the    *)
(* route calls bot.handle_update without a lock and the predictor holds    *)
(* none, so the statements of should_predict and make_prediction of two    *)
(* deliveries can run in any order.  threads[d].pc is the statement thread *)
(* d runs next; made and at are the target and the time of the record it   *)
(* stored for the delivery it is handling.                                 *)

ConcurrentMessages == {Msg1Spades, Msg1Hearts, Msg2Spades}

Goto(d, pc) == [threads EXCEPT ![d].pc = pc]

\* should_predict up to the stash of a message that is not final
sp_begin(d, m) ==
    /\ threads[d].pc = "idle"
    /\ LET g == Parsed(m).game_number
           stop == g = NoGame \/ g = 0 \/ Parsed(m).has_R \/ Parsed(m).has_X
           wait == ~stop /\ Parsed(m).pending /\ ~Parsed(m).completion
       IN  /\ threads' = [threads EXCEPT ![d] =
                             [Idle EXCEPT !.msg = m,
                                          !.pc = IF stop \/ wait THEN "verify"
                                                 ELSE "target"]]
           /\ temporary_messages' = IF wait THEN Put(temporary_messages, g, m)
                                            ELSE temporary_messages
    /\ ev' = Quiet("sp_begin")
    /\ UNCHANGED <<predictions, processed_messages, last_prediction_time,
                   prediction_cooldown, redirect_channels, persisted, store,
                   now, prevCreate, pubEver, pubSince, configured,
                   createdUnder, sent_predictions, txt, res, arrived, limiter>>

\* should_predict: the duplicate-target check and the stash removal
sp_target(d) ==
    /\ threads[d].pc = "target"
    /\ LET m == threads[d].msg
           g == Parsed(m).game_number
           open == target_pending(g + TargetOffset)
       IN  /\ threads' = Goto(d, IF open THEN "verify" ELSE "cooldown")
           /\ temporary_messages' = IF ~open /\ Parsed(m).completion
                                    THEN Del(temporary_messages, g)
                                    ELSE temporary_messages
    /\ ev' = Quiet("sp_target")
    /\ UNCHANGED <<predictions, processed_messages, last_prediction_time,
                   prediction_cooldown, redirect_channels, persisted, store,
                   now, prevCreate, pubEver, pubSince, configured,
                   createdUnder, sent_predictions, txt, res, arrived, limiter>>

\* should_predict: the cooldown check and the mirror rule
sp_cooldown(d) ==
    /\ threads[d].pc = "cooldown"
    /\ threads' = Goto(d, IF can_make_prediction
                               /\ Parsed(threads[d].msg).mirror # NoSuit
                          THEN "hash" ELSE "verify")
    /\ ev' = Quiet("sp_cooldown")
    /\ UNCHANGED <<predictions, processed_messages, temporary_messages,
                   last_prediction_time, prediction_cooldown,
                   redirect_channels, persisted, store, now, prevCreate,
                   pubEver, pubSince, configured, createdUnder,
                   sent_predictions, txt, res, arrived, limiter>>

\* should_predict: the fingerprint check
sp_hash(d) ==
    /\ threads[d].pc = "hash"
    /\ threads' = Goto(d, IF already_processed(threads[d].msg)
                          THEN "verify" ELSE "mark")
    /\ ev' = Quiet("sp_hash")
    /\ UNCHANGED <<predictions, processed_messages, temporary_messages,
                   last_prediction_time, prediction_cooldown,
                   redirect_channels, persisted, store, now, prevCreate,
                   pubEver, pubSince, configured, createdUnder,
                   sent_predictions, txt, res, arrived, limiter>>

\* should_predict: the fingerprint mark
sp_mark(d) ==
    /\ threads[d].pc = "mark"
    /\ processed_messages' =
           processed_messages \cup {message_hash(threads[d].msg)}
    /\ threads' = Goto(d, "make")
    /\ ev' = Quiet("sp_mark")
    /\ UNCHANGED <<predictions, temporary_messages, last_prediction_time,
                   prediction_cooldown, redirect_channels, persisted, store,
                   now, prevCreate, pubEver, pubSince, configured,
                   createdUnder, sent_predictions, txt, res, arrived, limiter>>

\* make_prediction: the record insert
mk_record(d) ==
    /\ threads[d].pc = "make"
    /\ LET m == threads[d].msg
           g == Parsed(m).game_number
       IN  /\ predictions' = make_prediction(predictions, g, Parsed(m).mirror,
                                             NoId, PREDICTION_CHANNEL_ID)
           /\ threads' = [threads EXCEPT ![d].pc = "stamp",
                                         ![d].made = g + TargetOffset,
                                         ![d].at = now]
    /\ ev' = Quiet("mk_record")
    /\ UNCHANGED <<processed_messages, temporary_messages,
                   last_prediction_time, prediction_cooldown,
                   redirect_channels, persisted, store, now, prevCreate,
                   pubEver, pubSince, configured, createdUnder,
                   sent_predictions, txt, res, arrived, limiter>>

\* make_prediction: the timestamp update and its save
mk_stamp(d) ==
    /\ threads[d].pc = "stamp"
    /\ last_prediction_time' = now
    /\ persisted' = save_last_prediction_time(now)
    /\ store' = store_after_save
    /\ prevCreate' = now
    /\ pubEver' = pubEver \cup {threads[d].msg}
    /\ pubSince' = pubSince \cup {threads[d].msg}
    /\ createdUnder' = configured
    /\ threads' = Goto(d, "verify")
    /\ ev' = Quiet("mk_stamp")
    /\ UNCHANGED <<predictions, processed_messages, temporary_messages,
                   prediction_cooldown, redirect_channels, now, configured,
                   sent_predictions, txt, res, arrived, limiter>>

\* the rest of process_incoming_telegram_message: the Publisher call for a
\* record this delivery stored, the verification and its Editor call
finish(d) ==
    /\ threads[d].pc = "verify"
    /\ LET m == threads[d].msg
           create == threads[d].made # NoGame
           target_game == threads[d].made
           publishes(ok) ==
               IF create
               THEN <<[chat_id |-> PREDICTION_CHANNEL_ID,
                       text |-> get_prediction_text(predictions, target_game),
                       ok |-> ok]>>
               ELSE << >>
       IN  \E sent \in IF create THEN PublishOutcomes ELSE {NotSent} :
           \E p2 \in {IF create /\ sent.ok
                      THEN [predictions EXCEPT
                                ![target_game].message_id = sent.message_id,
                                ![target_game].chat_id = PREDICTION_CHANNEL_ID]
                      ELSE predictions} :
           \E vr \in {verify_prediction(p2, m)} :
           LET edit(editok) ==
                   IF vr.attempts = << >> THEN << >>
                   ELSE edit_prediction_message(vr.preds, vr.attempts[1], editok)
           IN  \E editok \in IF edit(TRUE) # << >> THEN BOOLEAN ELSE {TRUE} :
                   /\ predictions' = vr.preds
                   /\ ev' = Event("process", m,
                                  IF create THEN target_game ELSE NoGame,
                                  publishes(sent.ok), edit(editok), vr.attempts,
                                  vr.verified,
                                  IF vr.verified = NoGame THEN "none"
                                  ELSE p2[vr.verified].status,
                                  create /\ sent.ok)
    /\ threads' = [threads EXCEPT ![d] = Idle]
    /\ UNCHANGED <<processed_messages, temporary_messages,
                   last_prediction_time, prediction_cooldown,
                   redirect_channels, persisted, store, now, prevCreate,
                   pubEver, pubSince, configured, createdUnder,
                   sent_predictions, txt, res, arrived, limiter>>

NextConcurrent ==
    \/ \E d \in Deliveries, m \in ConcurrentMessages : sp_begin(d, m)
    \/ \E d \in Deliveries : sp_target(d)
    \/ \E d \in Deliveries : sp_cooldown(d)
    \/ \E d \in Deliveries : sp_hash(d)
    \/ \E d \in Deliveries : sp_mark(d)
    \/ \E d \in Deliveries : mk_record(d)
    \/ \E d \in Deliveries : mk_stamp(d)
    \/ \E d \in Deliveries : finish(d)
    \/ Tick

SpecConcurrent == Init /\ [][NextConcurrent]_vars

---------------------------------------------------------------------------
(* The engine fed with one finalized message per round, in increasing      *)
(* round order; the feed does not stop before its last round               *)

InOrderMessages == {m \in Messages : Parsed(m).completion}

\* the feed starts before round 1
InitInOrder == Constructed /\ arrived = 0

\* the message of the next round arrives
arrive(m) ==
    /\ Parsed(m).game_number = arrived + 1
    /\ process_incoming_telegram_message(TARGET_CHANNEL_ID, m)

Arrival == \E m \in InOrderMessages : arrive(m)

NextInOrder ==
    \/ \E m \in InOrderMessages : arrive(m)
    \/ Tick

SpecInOrder == InitInOrder /\ [][NextInOrder]_vars /\ WF_vars(Arrival)

---------------------------------------------------------------------------
(* The text functions applied to every short text                          *)

ParenAlphabet == {"(", ")", "H", "RH", "S"}
SuitAlphabet == {"S", "H", "RH", "D", "C"}

TextsOver(alphabet) == UNION {[1..n -> alphabet] : n \in 0..MaxTextLen}

Texts == TextsOver(ParenAlphabet) \cup TextsOver(SuitAlphabet)

InitText ==
    /\ predictions = EmptyMap
    /\ processed_messages = {}
    /\ temporary_messages = EmptyMap
    /\ last_prediction_time = 0
    /\ prediction_cooldown = DefaultCooldown
    /\ redirect_channels = EmptyMap
    /\ persisted = 0
    /\ store = [kind |-> "number", writable |-> TRUE]
    /\ configured = DefaultCooldown
    /\ createdUnder = DefaultCooldown
    /\ sent_predictions = EmptyMap
    /\ now = 1
    /\ ev = Quiet("init")
    /\ prevCreate = 0
    /\ pubEver = {}
    /\ pubSince = {}
    /\ txt \in Texts
    /\ res = NoResult
    /\ threads = [d \in Deliveries |-> Idle]
    /\ user_message_counts = [u \in RateUsers |-> << >>]
    /\ accepted = [u \in RateUsers |-> << >>]
    /\ arrived = NoFeed

Classify ==
    /\ ~res.done
    /\ res' = [done |-> TRUE,
               normalized |-> normalize_emoji(txt),
               mirror |-> check_mirror_rule(txt),
               first |-> [c \in Suits |-> check_costume_in_first_parentheses(txt, c)]]
    /\ UNCHANGED <<predictions, processed_messages, temporary_messages,
                   last_prediction_time, prediction_cooldown,
                   redirect_channels, persisted, now, ev, prevCreate, pubEver,
                   pubSince, configured, createdUnder, sent_predictions,
                   store, txt, threads, arrived, limiter>>

SpecText == InitText /\ [][Classify]_vars

---------------------------------------------------------------------------
(* The rate limiter of the handlers                                        *)

MAX_MESSAGES_PER_MINUTE == 30
RATE_LIMIT_WINDOW == 60

\* the instants datetime.now() takes while the limiter is called: a start,
\* the last second of the window that starts there, and the first after it
RateInstants == {1, RATE_LIMIT_WINDOW, RATE_LIMIT_WINDOW + 1}

\* the list is_rate_limited keeps of user_messages: the entries younger
\* than the window
recent_messages(user_messages, t) ==
    SelectSeq(user_messages, LAMBDA msg_time : t - msg_time < RATE_LIMIT_WINDOW)

\* `if len(user_messages) >= MAX_MESSAGES_PER_MINUTE`
limit_reached_over(user_messages) ==
    Len(user_messages) > MAX_MESSAGES_PER_MINUTE

limit_reached(user_messages) ==
    Len(user_messages) >= MAX_MESSAGES_PER_MINUTE

\* is_rate_limited(user_id): True ("limited") leaves the pruned list, False
\* ("accepted") appends the time of the call to it.  The other user's calls
\* are counted up to MaxOtherCalls.
is_rate_limited(user_id) ==
    /\ user_id = OTHER_USER_ID => Len(accepted[user_id]) < MaxOtherCalls
    /\ \E user_messages \in {recent_messages(user_message_counts[user_id], now)} :
           IF limit_reached(user_messages)
           THEN /\ user_message_counts' =
                       [user_message_counts EXCEPT ![user_id] = user_messages]
                /\ accepted' = accepted
                /\ ev' = [Quiet("is_rate_limited") EXCEPT !.user = user_id,
                                                          !.was = "limited"]
           ELSE /\ user_message_counts' =
                       [user_message_counts EXCEPT
                            ![user_id] = Append(user_messages, now)]
                /\ accepted' = [accepted EXCEPT ![user_id] = Append(@, now)]
                /\ ev' = [Quiet("is_rate_limited") EXCEPT !.user = user_id,
                                                          !.was = "accepted"]
    /\ UNCHANGED <<predictions, processed_messages, temporary_messages,
                   last_prediction_time, prediction_cooldown,
                   redirect_channels, persisted, now, prevCreate, pubEver,
                   pubSince, configured, createdUnder, sent_predictions,
                   store, txt, res, threads, arrived>>

\* time passes between two calls
rate_tick ==
    /\ \E t \in RateInstants : t > now /\ now' = t
    /\ ev' = Quiet("tick")
    /\ UNCHANGED <<predictions, processed_messages, temporary_messages,
                   last_prediction_time, prediction_cooldown,
                   redirect_channels, persisted, prevCreate, pubEver,
                   pubSince, configured, createdUnder, sent_predictions,
                   store, txt, res, threads, arrived, limiter>>

NextRate ==
    \/ \E user_id \in RateUsers : is_rate_limited(user_id)
    \/ rate_tick

SpecRate == Init /\ [][NextRate]_vars

\* the accepted calls of a user in the window of RATE_LIMIT_WINDOW seconds
\* that ends with the instant t: the seconds t - RATE_LIMIT_WINDOW + 1 .. t
AcceptedInWindow(user_id, t) ==
    {i \in DOMAIN accepted[user_id] :
         /\ accepted[user_id][i] <= t
         /\ t - accepted[user_id][i] < RATE_LIMIT_WINDOW}

---------------------------------------------------------------------------
(* Properties                                                              *)

\* the message of the step just taken is a message for round g
StepFor(g) == ev'.op = "process" /\ Parsed(ev'.msg).game_number = g

\* the statuses a published text may show
VisibleStatuses == {"PENDING", "OK0", "OK1", "FAILED"}

\* C1: terminality of ConfirmedImmediate.  Processing a message never moves
\* a record whose status is OK0 to FAILED, to OK1 or back to waiting_next.
C1_ConfirmedImmediateIsTerminal ==
    [][\A T \in DOMAIN predictions :
          (predictions[T].status = "OK0" /\ ev'.op = "process")
          => /\ T \in DOMAIN predictions'
             /\ predictions'[T].status \notin {"FAILED", "OK1", "waiting_next"}]_vars

\* C2: no record re-enters Pending.  Once the status stored under a target
\* is no longer PENDING, processing a message never makes it PENDING again.
C2_NoReentryIntoPending ==
    [][\A T \in DOMAIN predictions :
          (predictions[T].status # "PENDING" /\ ev'.op = "process")
          => /\ T \in DOMAIN predictions'
             /\ predictions'[T].status # "PENDING"]_vars

\* C3: while the record for target T is PENDING or waiting_next, processing
\* a message for round T-2 leaves that record and the cooldown timestamp
\* unchanged, creates nothing and publishes nothing.
C3_NoSecondPredictionForPendingTarget ==
    [][\A T \in DOMAIN predictions :
          (predictions[T].status \in {"PENDING", "waiting_next"}
              /\ StepFor(T - TargetOffset))
          => /\ T \in DOMAIN predictions'
             /\ predictions'[T] = predictions[T]
             /\ last_prediction_time' = last_prediction_time
             /\ ev'.made = NoGame
             /\ ev'.publishes = << >>]_vars

\* C3 witness: a message for round T-2 with a unique majority suit, not seen
\* before, was processed with the cooldown elapsed while the record for T
\* was waiting for the next round, and nothing was created.
C3_Witness ==
    /\ ev.op = "process"
    /\ ev.made = NoGame
    /\ Parsed(ev.msg).mirror # NoSuit
    /\ ~already_processed(ev.msg)
    /\ can_make_prediction
    /\ LET T == Parsed(ev.msg).game_number + TargetOffset
       IN  T \in DOMAIN predictions /\ predictions[T].status = "waiting_next"

\* C4: make_prediction for a source round whose target holds a PENDING
\* record fails and leaves the ledger as it was.
C4_CreateRejectsPendingTarget ==
    [][(ev'.op = "make_prediction"
           /\ ev'.made \in DOMAIN predictions
           /\ predictions[ev'.made].status = "PENDING")
       => predictions' = predictions]_vars

\* C5: a creation that follows another one (no reset in between) comes at
\* least prediction_cooldown seconds after it, and the gate allows exactly
\* when there was no creation since the reset or the cooldown has elapsed,
\* the boundary included.
C5_CooldownBetweenCreations ==
    [][/\ (ev'.op = "process" /\ ev'.made # NoGame /\ prevCreate # 0)
          => now' - prevCreate >= prediction_cooldown
       /\ can_make_prediction
          <=> (prevCreate = 0 \/ now - prevCreate >= prediction_cooldown)]_vars

\* C5 witness: a prediction was created exactly prediction_cooldown seconds
\* after the previous one.
C5_Witness ==
    /\ ev.op = "process"
    /\ ev.made # NoGame
    /\ \E T \in DOMAIN predictions :
          /\ T # ev.made
          /\ predictions[ev.made].timestamp - predictions[T].timestamp
                = prediction_cooldown

\* C6 as stated: a text that ever led to a Publisher call never leads to a
\* creation or a Publisher call again.
C6_PublishedAtMostOnceEver ==
    [][(ev'.op = "process" /\ ev'.msg \in pubEver)
       => (ev'.made = NoGame /\ ev'.publishes = << >>)]_vars

\* C6 amended: a text that led to a Publisher call since the last reset
\* never leads to a creation or a Publisher call again.
C6_PublishedAtMostOnceSinceReset ==
    [][(ev'.op = "process" /\ ev'.msg \in pubSince)
       => (ev'.made = NoGame /\ ev'.publishes = << >>)]_vars

\* C6 witness: a text that was published before was delivered again when
\* its target was free, the cooldown had elapsed and its majority was
\* unique, and nothing was created.
C6_Witness ==
    /\ ev.op = "process"
    /\ ev.msg \in pubSince
    /\ ev.made = NoGame
    /\ ev.publishes = << >>
    /\ Parsed(ev.msg).mirror # NoSuit
    /\ can_make_prediction
    /\ ~target_pending(Parsed(ev.msg).game_number + TargetOffset)

\* C7: a finalized message for round T+1 closes the record for T that is
\* waiting for the next round: OK1 if the costume is in the first group,
\* FAILED otherwise, whatever else the ledger holds.
C7_DelayedCheckCloses ==
    [][\A T \in DOMAIN predictions :
          (predictions[T].status = "waiting_next"
              /\ StepFor(T + 1) /\ Parsed(ev'.msg).completion)
          => /\ T \in DOMAIN predictions'
             /\ predictions'[T].status =
                   IF Parsed(ev'.msg).first[predictions[T].predicted_costume]
                   THEN "OK1" ELSE "FAILED"]_vars

\* C8: a finalized message for the target T of a PENDING record makes the
\* record OK0 and has its published text edited (an Editor call to the
\* stored handle when there is one) if the costume is in the first group;
\* otherwise the record becomes waiting_next and nothing is edited.  No
\* published or edited text ever shows a status other than the visible ones.
C8_ImmediateCheck ==
    [][/\ \A T \in DOMAIN predictions :
            (predictions[T].status = "PENDING"
                /\ StepFor(T) /\ Parsed(ev'.msg).completion)
            => IF Parsed(ev'.msg).first[predictions[T].predicted_costume]
               THEN /\ predictions'[T].status = "OK0"
                    /\ ev'.attempts = <<T>>
                    /\ predictions[T].message_id # NoId
                       => /\ Len(ev'.edits) = 1
                          /\ ev'.edits[1].chat_id = predictions[T].chat_id
                          /\ ev'.edits[1].message_id = predictions[T].message_id
                          /\ ev'.edits[1].text =
                                PredictionText(T, predictions[T].predicted_costume, "OK0")
               ELSE /\ predictions'[T].status = "waiting_next"
                    /\ ev'.attempts = << >>
                    /\ ev'.edits = << >>
       /\ \A k \in 1..Len(ev'.publishes) :
            ev'.publishes[k].text.status \in VisibleStatuses
       /\ \A k \in 1..Len(ev'.edits) :
            ev'.edits[k].text.status \in VisibleStatuses]_vars

\* C8 witness: a published PENDING record missed its immediate check and
\* went to waiting_next with no edit.
C8_Witness ==
    /\ ev.op = "process"
    /\ ev.verified \in DOMAIN predictions
    /\ ev.was = "PENDING"
    /\ Parsed(ev.msg).game_number = ev.verified
    /\ predictions[ev.verified].status = "waiting_next"
    /\ predictions[ev.verified].message_id # NoId
    /\ ev.edits = << >>

\* the costume c (a heart in either glyph) is at position k of the text
HasSuitAt(t, k, c) == t[k] = c \/ (c = "H" /\ t[k] = "RH")

\* the costume c occurs in the leftmost parenthesized segment of the text,
\* empty or not: between the leftmost "(" that has a ")" after it and the
\* first ")" that follows it
OccursInLeftmostSegment(t, c) ==
    \E i, j \in 1..Len(t) :
        /\ t[i] = "(" /\ t[j] = ")" /\ j > i
        /\ \A k \in (i + 1)..(j - 1) : t[k] # ")"
        /\ \A i2 \in 1..(i - 1) :
              ~(t[i2] = "(" /\ \E j2 \in (i2 + 1)..Len(t) : t[j2] = ")")
        /\ \E k \in (i + 1)..(j - 1) : HasSuitAt(t, k, c)

\* the costume c occurs in the leftmost non-empty parenthesized group of the
\* text: the leftmost "(" that has at least one character before the next ")"
OccursInFirstGroup(t, c) ==
    \E i, j \in 1..Len(t) :
        /\ t[i] = "(" /\ t[j] = ")" /\ j > i + 1
        /\ \A k \in (i + 1)..(j - 1) : t[k] # ")"
        /\ \A i2 \in 1..(i - 1) :
              ~(/\ t[i2] = "("
                /\ \E j2 \in (i2 + 2)..Len(t) :
                      t[j2] = ")" /\ \A k \in (i2 + 1)..(j2 - 1) : t[k] # ")")
        /\ \E k \in (i + 1)..(j - 1) : HasSuitAt(t, k, c)

SuitCount(t, c) == Cardinality({k \in 1..Len(t) : HasSuitAt(t, k, c)})

\* C10: check_mirror_rule returns a suit exactly when one suit and no other
\* occurs three times or more, and then it returns Heart -> Club,
\* Club -> Heart, Spade -> Diamond, Diamond -> Spade; the suit returned is
\* never a majority suit.
C10_MirrorOfUniqueMajority ==
    res.done =>
        LET majority == {c \in Suits : SuitCount(txt, c) >= 3}
        IN  /\ (res.mirror # NoSuit) <=> (Cardinality(majority) = 1)
            /\ majority = {"H"} => res.mirror = "C"
            /\ majority = {"C"} => res.mirror = "H"
            /\ majority = {"S"} => res.mirror = "D"
            /\ majority = {"D"} => res.mirror = "S"
            /\ res.mirror \notin majority

\* C10 witness: hearts in both glyphs are the unique majority and club is
\* returned.
C10_Witness ==
    /\ res.done
    /\ res.mirror = "C"
    /\ \E k \in 1..Len(txt) : txt[k] = "RH"
    /\ \E k \in 1..Len(txt) : txt[k] = "H"

\* C11 as stated: processing a message without a completion indicator
\* creates no record and publishes nothing.
C11_CreationOnlyFromFinalized ==
    [][(ev'.op = "process" /\ ~Parsed(ev'.msg).completion)
       => (ev'.made = NoGame /\ ev'.publishes = << >>
             /\ DOMAIN predictions' = DOMAIN predictions)]_vars

\* C12: processing a message with a pending indicator and no completion
\* indicator changes nothing but the stash: the ledger, the cooldown
\* timestamp and the fingerprint set are unchanged, nothing is published or
\* edited, and the text is stashed under its round number.
C12_PendingIsOnlyStashed ==
    [][(ev'.op = "process"
           /\ Parsed(ev'.msg).pending /\ ~Parsed(ev'.msg).completion)
       => /\ predictions' = predictions
          /\ last_prediction_time' = last_prediction_time
          /\ persisted' = persisted
          /\ processed_messages' = processed_messages
          /\ ev'.made = NoGame /\ ev'.verified = NoGame
          /\ ev'.publishes = << >> /\ ev'.edits = << >> /\ ev'.attempts = << >>
          /\ (Parsed(ev'.msg).game_number > 0
                /\ ~Parsed(ev'.msg).has_R /\ ~Parsed(ev'.msg).has_X)
             => temporary_messages' =
                   Put(temporary_messages, Parsed(ev'.msg).game_number, ev'.msg)]_vars

\* C12 witness: a pending message for round 3 with a unique majority and the
\* predicted costume in its first group was stashed while the record for 3
\* was PENDING, the cooldown had elapsed and the target 5 was free.
C12_Witness ==
    /\ ev.op = "process"
    /\ Parsed(ev.msg).pending /\ ~Parsed(ev.msg).completion
    /\ Parsed(ev.msg).mirror # NoSuit
    /\ Parsed(ev.msg).game_number \in DOMAIN temporary_messages
    /\ temporary_messages[Parsed(ev.msg).game_number] = ev.msg
    /\ Parsed(ev.msg).game_number \in DOMAIN predictions
    /\ predictions[Parsed(ev.msg).game_number].status = "PENDING"
    /\ Parsed(ev.msg).first[predictions[Parsed(ev.msg).game_number].predicted_costume]
    /\ can_make_prediction
    /\ ~target_pending(Parsed(ev.msg).game_number + TargetOffset)

\* the text holds one of the exclusion markers, #R or #X
HasExclusionMarker(t) ==
    \E i \in 1..(Len(t) - 1) : t[i] = "#" /\ t[i + 1] \in {"R", "X"}

\* C13: a message with an exclusion marker creates nothing and publishes
\* nothing; if it is finalized it is still evidence: a record keyed by its
\* round number gets its immediate check, and otherwise a record keyed one
\* round earlier that is waiting_next gets its delayed check.
C13_ExcludedNeverCreatesStillVerifies ==
    [][(ev'.op = "process" /\ HasExclusionMarker(ev'.msg))
       => LET g == Parsed(ev'.msg).game_number
          IN  /\ ev'.made = NoGame /\ ev'.publishes = << >>
              /\ DOMAIN predictions' = DOMAIN predictions
              /\ last_prediction_time' = last_prediction_time
              /\ (Parsed(ev'.msg).completion /\ g \in DOMAIN predictions)
                 => predictions'[g].status =
                       IF Parsed(ev'.msg).first[predictions[g].predicted_costume]
                       THEN "OK0" ELSE "waiting_next"
              /\ (Parsed(ev'.msg).completion /\ g \notin DOMAIN predictions
                    /\ g - 1 \in DOMAIN predictions
                    /\ predictions[g - 1].status = "waiting_next")
                 => predictions'[g - 1].status =
                       IF Parsed(ev'.msg).first[predictions[g - 1].predicted_costume]
                       THEN "OK1" ELSE "FAILED"]_vars

\* C13 witness: a finalized message with an exclusion marker and a unique
\* majority, delivered when the gate allowed and its target was free, closed
\* the delayed check of a waiting record and created nothing.
C13_Witness ==
    /\ ev.op = "process"
    /\ HasExclusionMarker(ev.msg)
    /\ Parsed(ev.msg).mirror # NoSuit
    /\ ev.made = NoGame
    /\ ev.was = "waiting_next"
    /\ ev.verified = Parsed(ev.msg).game_number - 1
    /\ predictions[ev.verified].status = "OK1"
    /\ can_make_prediction
    /\ ~target_pending(Parsed(ev.msg).game_number + TargetOffset)

\* C14 as stated: a prediction created for a message from source chat c is
\* published to the destination the redirection table gives for c (the
\* default destination when c has no entry), and the record's chat_id names
\* that destination.
C14_PublishedToRedirectDestination ==
    [][(ev'.op = "process" /\ ev'.made # NoGame)
       => /\ \A i \in 1..Len(ev'.publishes) :
                ev'.publishes[i].chat_id = get_redirect_channel(ev'.chat)
          /\ ev'.made \in DOMAIN predictions'
          /\ predictions'[ev'.made].chat_id = get_redirect_channel(ev'.chat)]_vars

\* C15: when the Publisher call fails, the created record stays in the
\* ledger PENDING with no message id and the result has no made_prediction;
\* a later finalized message for the round of a record without message id is
\* verified (PENDING becomes OK0 or waiting_next, waiting_next is closed by
\* the next round) and no Editor call is made for it.
C15_FailedPublishLeavesUsableRecord ==
    [][(ev'.op = "process")
       => /\ (ev'.made # NoGame /\ ~ev'.publishes[1].ok)
             => /\ ev'.made \in DOMAIN predictions'
                /\ predictions'[ev'.made].status = "PENDING"
                /\ predictions'[ev'.made].message_id = NoId
                /\ ~ev'.returned_made
          /\ \A g \in DOMAIN predictions :
                (predictions[g].message_id = NoId /\ Parsed(ev'.msg).completion)
                => /\ (Parsed(ev'.msg).game_number = g
                         /\ predictions[g].status = "PENDING")
                      => /\ ev'.verified = g
                         /\ predictions'[g].status \in {"OK0", "waiting_next"}
                         /\ ev'.edits = << >>
                   /\ (Parsed(ev'.msg).game_number = g + 1
                         /\ predictions[g].status = "waiting_next"
                         /\ g + 1 \notin DOMAIN predictions)
                      => /\ ev'.verified = g
                         /\ predictions'[g].status \in {"OK1", "FAILED"}
                         /\ ev'.edits = << >>]_vars

\* C15 witness: in one step the publish of a new prediction failed and a
\* record that was never published was closed by the round after its target.
C15_Witness ==
    /\ ev.op = "process"
    /\ ev.made # NoGame /\ ~ev.publishes[1].ok
    /\ predictions[ev.made].message_id = NoId
    /\ ev.verified # NoGame /\ ev.was = "waiting_next"
    /\ predictions[ev.verified].message_id = NoId
    /\ predictions[ev.verified].status = "FAILED"
    /\ ev.edits = << >> /\ ev.attempts # << >>

\* C16: one incoming message leads to at most one record creation with at
\* most one Publisher call (and none without a creation), and to a status
\* change of at most one record other than the created one, the record
\* verify_prediction returns, with at most one Editor call, made for that
\* record.
C16_OneCreationOneVerification ==
    [][(ev'.op = "process")
       => /\ Len(ev'.publishes) <= 1
          /\ (ev'.made = NoGame) => (ev'.publishes = << >>)
          /\ DOMAIN predictions \subseteq DOMAIN predictions'
          /\ (DOMAIN predictions' \ DOMAIN predictions) \subseteq {ev'.made}
          /\ \A g \in DOMAIN predictions \ {ev'.made} :
                (predictions'[g] # predictions[g]) => (g = ev'.verified)
          /\ Len(ev'.edits) <= 1
          /\ Len(ev'.attempts) <= 1
          /\ \A i \in 1..Len(ev'.edits) :
                /\ ev'.verified # NoGame
                /\ ev'.edits[i].message_id = predictions'[ev'.verified].message_id]_vars

\* C16 witness: one message created and published a prediction and closed
\* another, published, record with an edit.
C16_Witness ==
    /\ ev.op = "process"
    /\ ev.made # NoGame /\ Len(ev.publishes) = 1
    /\ ev.verified # NoGame /\ ev.verified # ev.made
    /\ Len(ev.edits) = 1
    /\ predictions[ev.verified].status = "OK0"
    /\ Cardinality(DOMAIN predictions) = 2

\* C17: whatever the creation step of a finalized message did (created and
\* published, created with a failed publish, or created nothing), the
\* record keyed by the message's round is verified, and when there is none
\* the waiting record keyed one round earlier is closed.
C17_VerificationIndependentOfCreation ==
    [][(ev'.op = "process" /\ Parsed(ev'.msg).completion)
       => LET g == Parsed(ev'.msg).game_number
          IN  /\ (g \in DOMAIN predictions)
                 => /\ ev'.verified = g
                    /\ predictions'[g].status =
                          IF Parsed(ev'.msg).first[predictions[g].predicted_costume]
                          THEN "OK0" ELSE "waiting_next"
              /\ (g \notin DOMAIN predictions
                    /\ (g - 1) \in DOMAIN predictions
                    /\ predictions[g - 1].status = "waiting_next")
                 => /\ ev'.verified = g - 1
                    /\ predictions'[g - 1].status =
                          IF Parsed(ev'.msg).first[predictions[g - 1].predicted_costume]
                          THEN "OK1" ELSE "FAILED"]_vars

\* C17 witness: one finalized message for round N created and published the
\* record for N+2 and moved the PENDING record keyed N.
C17_Witness ==
    /\ ev.op = "process"
    /\ Parsed(ev.msg).completion
    /\ ev.made = Parsed(ev.msg).game_number + TargetOffset
    /\ ev.returned_made
    /\ predictions[ev.made].status = "PENDING"
    /\ ev.verified = Parsed(ev.msg).game_number
    /\ ev.was = "PENDING"
    /\ predictions[ev.verified].status # "PENDING"

\* the number a text of digits with an optional minus sign stands for
NumberOf(a) ==
    IF a[1] = "-" THEN 0 - DecVal(a, 2, Len(a)) ELSE DecVal(a, 1, Len(a))

\* C18: prediction_cooldown is within 30..600 after every step, and a
\* /cooldown command whose value is below 30 or above 600 leaves it
\* unchanged, while a value within the range, sent by an accepted user, is
\* stored.
C18_CooldownStaysInRange ==
    [][/\ prediction_cooldown' \in 30..600
       /\ (ev'.op = "cooldown")
          => \A a \in {<<"2", "9">>, <<"6", "0", "1">>, <<"-", "4", "5">>,
                       <<"3", "0">>, <<"6", "0", "0">>} :
                (ev'.msg = <<"/cooldown", " ">> \o a)
                => IF NumberOf(a) < 30 \/ NumberOf(a) > 600
                   THEN prediction_cooldown' = prediction_cooldown
                   ELSE (ev'.user # OTHER_USER_ID)
                        => prediction_cooldown' = NumberOf(a)]_vars

\* C18 witness: a /cooldown 601 from the authorized user was rejected while
\* the cooldown stood at the upper limit set by an earlier command.
C18_Witness ==
    /\ ev.op = "cooldown"
    /\ ev.msg = <<"/cooldown", " ", "6", "0", "1">>
    /\ ev.user = AUTHORIZED_USER_ID
    /\ prediction_cooldown = 600

\* C19 as stated: when a prediction was created at time t under the
\* cooldown c set at runtime and that setting has not been changed since,
\* no prediction is created before t + c, restarts of the process included.
C19_RestartKeepsConfiguredCooldown ==
    [][(ev'.op = "process" /\ ev'.made # NoGame /\ prevCreate # 0
           /\ configured = createdUnder)
       => now - prevCreate >= createdUnder]_vars

\* C20 as stated: after a reset (reset_predictions, reset_all_predictions,
\* or the /reset command from an accepted user) the ledger is empty, the
\* stored timestamp is the unset value and the cooldown gate is open.
C20_ResetClearsEverything ==
    [][(\/ ev'.op \in {"reset", "reset_all"}
        \/ ev'.op = "reset_command" /\ ev'.user # OTHER_USER_ID)
       => /\ predictions' = EmptyMap
          /\ persisted' = 0
          /\ last_prediction_time' = 0]_vars

\* C21 as stated: a finalized message from the watched channel that passes
\* every gate of should_predict creates the PENDING record for its round
\* plus two, whether the handlers receive it as a message or as an edited
\* message.
C21_MessageAndEditedMessageBothCreate ==
    [][(ev'.op \in {"message", "edited_message"}
           /\ ev'.chat = TARGET_CHANNEL_ID
           /\ Parsed(ev'.msg).completion
           /\ should_predict(ev'.msg).should)
       => LET target_game == Parsed(ev'.msg).game_number + 2
          IN  /\ ev'.made = target_game
              /\ target_game \in DOMAIN predictions'
              /\ predictions'[target_game].status = "PENDING"
              /\ predictions'[target_game].predicted_from
                    = Parsed(ev'.msg).game_number]_vars

\* C22 as stated: a step that publishes a prediction successfully stores
\* the sent message only under the key of the record make_prediction
\* stored, the source round plus two: the message id written on a record
\* of the ledger (predictor) or the entry written in sent_predictions
\* (handlers) is written under that key.
C22_HandleStoredUnderTarget ==
    [][(ev'.made # NoGame /\ ev'.publishes # << >> /\ ev'.publishes[1].ok)
       => /\ ev'.made = Parsed(ev'.msg).game_number + 2
          /\ ev'.made \in DOMAIN predictions'
          /\ \A k \in DOMAIN sent_predictions' :
                (k \notin DOMAIN sent_predictions
                   \/ sent_predictions'[k] # sent_predictions[k])
                => k = ev'.made
          /\ \A k \in DOMAIN predictions' \ {ev'.made} :
                k \in DOMAIN predictions
                   /\ predictions'[k].message_id = predictions[k].message_id]_vars

\* C23 as stated: a start over a timestamp file that cannot be read or does
\* not hold a timestamp leaves the cooldown unset, so the gate is open; and
\* when the write of the file fails, a creation still stores its record and
\* the time in memory, and a reset still empties the ledger and unsets the
\* time in memory.
C23_PersistenceFailsOpen ==
    [][/\ (ev'.op = "restart" /\ store.kind # "number")
          => last_prediction_time' = 0
       /\ (ev'.op = "process" /\ ev'.made # NoGame /\ ~store.writable)
          => /\ ev'.made \in DOMAIN predictions'
             /\ last_prediction_time' = now
       /\ (ev'.op \in {"reset", "reset_all"} /\ ~store.writable)
          => /\ predictions' = EmptyMap
             /\ last_prediction_time' = 0]_vars

\* the text with every heart written in the glyph h
WithHearts(t, h) ==
    [i \in 1..Len(t) |-> IF t[i] \in {"H", "RH"} THEN h ELSE t[i]]

\* C24: normalising the normalised text changes nothing, and
\* check_mirror_rule and check_costume_in_first_parentheses give for a text
\* what they give for the same text with every heart in the red glyph and
\* with every heart in the black glyph (so the same for any two texts that
\* differ only in the glyphs of their hearts).
C24_HeartGlyphInsensitive ==
    res.done =>
        /\ normalize_emoji(res.normalized) = res.normalized
        /\ \A h \in {"H", "RH"} :
              /\ check_mirror_rule(WithHearts(txt, h)) = res.mirror
              /\ \A c \in Suits :
                    check_costume_in_first_parentheses(WithHearts(txt, h), c)
                       = res.first[c]

\* C24 witness: a text with the red heart, for which both functions give a
\* result that depends on the hearts: hearts are the majority and a heart is
\* in the first group.
C24_Witness ==
    /\ res.done
    /\ \E k \in 1..Len(txt) : txt[k] = "RH"
    /\ res.normalized # txt
    /\ res.first["H"]
    /\ res.mirror = "C"

\* C25 as stated: once a text has produced a prediction, a text that
\* differs from it only in the glyphs of its hearts is treated as already
\* processed and produces none.
C25_FingerprintOverNormalizedText ==
    [][(ev'.op = "process"
           /\ \E m \in pubSince :
                 WithHearts(m, "H") = WithHearts(ev'.msg, "H"))
       => ev'.made = NoGame]_vars

\* the text holds a '#', optionally followed by n or N, followed by a digit
HasRoundNumber(t) ==
    \E i \in 1..Len(t) :
        /\ t[i] = "#"
        /\ \/ i + 1 <= Len(t) /\ t[i + 1] \in DigitToks
           \/ /\ i + 2 <= Len(t)
              /\ t[i + 1] \in {"n", "N"}
              /\ t[i + 2] \in DigitToks

\* the suits that occur at least three times in the text, a heart counted
\* in either glyph
MajoritySuits(t) ==
    {c \in Suits : Cardinality({i \in 1..Len(t) : WithHearts(t, "H")[i] = c}) >= 3}

\* C26: when a finalized message for round N with a unique majority suit
\* passes every gate (no exclusion marker, target N+2 not open, cooldown
\* elapsed, text not fingerprinted), the ledger afterwards holds under N+2 a
\* PENDING record whose costume is the mirror of the majority suit and whose
\* source round is N, and last_prediction_time is the time of the creation.
C26_CreationResult ==
    [][(/\ ev'.op = "process"
        /\ HasRoundNumber(ev'.msg)
        /\ Parsed(ev'.msg).completion
        /\ ~HasExclusionMarker(ev'.msg)
        /\ Cardinality(MajoritySuits(ev'.msg)) = 1
        /\ ~target_pending(Parsed(ev'.msg).game_number + 2)
        /\ can_make_prediction
        /\ ~already_processed(ev'.msg))
       => LET N == Parsed(ev'.msg).game_number
          IN  /\ ev'.made = N + 2
              /\ N + 2 \in DOMAIN predictions'
              /\ predictions'[N + 2].status = "PENDING"
              /\ predictions'[N + 2].predicted_from = N
              /\ predictions'[N + 2].timestamp = now
              /\ \E c \in MajoritySuits(ev'.msg) :
                    predictions'[N + 2].predicted_costume = mirror_map(c)
              /\ last_prediction_time' = now]_vars

\* a second creation, at time 31, from the three hearts of round 4
C26_Witness ==
    /\ ev.op = "process" /\ ev.made = 6 /\ now = 31
    /\ Parsed(ev.msg).completion
    /\ predictions[6].status = "PENDING"
    /\ predictions[6].predicted_costume = "C"
    /\ predictions[6].predicted_from = 4
    /\ last_prediction_time = 31

\* C27: processing a message from which no round number can be extracted
\* changes neither the ledger, the cooldown timestamp, the fingerprint set
\* nor the stash, calls neither the Publisher nor the Editor, and its result
\* carries neither a prediction nor a verification.
C27_NoRoundNumberIgnored ==
    [][(ev'.op = "process" /\ ~HasRoundNumber(ev'.msg))
       => /\ UNCHANGED <<predictions, last_prediction_time, persisted,
                         processed_messages, temporary_messages>>
          /\ ev'.publishes = << >> /\ ev'.edits = << >>
          /\ ev'.made = NoGame /\ ~ev'.returned_made
          /\ ev'.verified = NoGame /\ ev'.attempts = << >>]_vars

\* the unnumbered diamonds arrive while record 3 is PENDING for diamond, a
\* text is stashed and the cooldown has elapsed
C27_Witness ==
    /\ ev.op = "process" /\ ev.msg = MsgNoNumber
    /\ 3 \in DOMAIN predictions
    /\ predictions[3].status = "PENDING"
    /\ predictions[3].predicted_costume = "D"
    /\ temporary_messages # EmptyMap
    /\ now - last_prediction_time >= prediction_cooldown

\* C28 as stated: two deliveries handled at the same time never both store
\* a record for the same target or within one cooldown interval of each
\* other.
C28_DeliveriesSerialized ==
    \A d1, d2 \in Deliveries :
        (d1 # d2 /\ threads[d1].made # NoGame /\ threads[d2].made # NoGame)
        => /\ threads[d1].made # threads[d2].made
           /\ \/ threads[d1].at - threads[d2].at >= prediction_cooldown
              \/ threads[d2].at - threads[d1].at >= prediction_cooldown

\* C29: a record's status becomes OK1 or FAILED only in a step that
\* processes a message whose round number is the record's target + 1 while
\* the record was waiting_next; never from PENDING, and never by a message
\* for a later round.
C29_DelayedOutcomeOnlyOneRoundLater ==
    [][\A T \in DOMAIN predictions' :
           (/\ predictions'[T].status \in {"OK1", "FAILED"}
            /\ \/ T \notin DOMAIN predictions
               \/ predictions[T].status # predictions'[T].status)
           => /\ ev'.op = "process"
              /\ T \in DOMAIN predictions
              /\ predictions[T].status = "waiting_next"
              /\ Parsed(ev'.msg).game_number = T + 1]_vars

\* the record for round 3 has just been closed as OK1 by a round-4 message
C29_Witness ==
    /\ ev.op = "process" /\ ev.verified = 3 /\ ev.was = "waiting_next"
    /\ predictions[3].status = "OK1"
    /\ Parsed(ev.msg).game_number = 4

\* the text reaches the cooldown gate of should_predict: it has a round
\* number and no exclusion marker, it is not a pending text that is not
\* final, and its target is not open
ReachesCooldownGate(t) ==
    /\ HasRoundNumber(t) /\ ~HasExclusionMarker(t)
    /\ ~(Parsed(t).pending /\ ~Parsed(t).completion)
    /\ ~target_pending(Parsed(t).game_number + 2)

\* C30: a message stopped at the cooldown gate, or at the mirror rule for
\* want of a unique majority suit, creates no record and publishes nothing,
\* and leaves last_prediction_time and the fingerprint set as they were.
C30_StoppedMessageNotFingerprinted ==
    [][(/\ ev'.op = "process"
        /\ ReachesCooldownGate(ev'.msg)
        /\ \/ ~can_make_prediction
           \/ Cardinality(MajoritySuits(ev'.msg)) # 1)
       => /\ ev'.made = NoGame /\ ev'.publishes = << >> /\ ~ev'.returned_made
          /\ DOMAIN predictions' = DOMAIN predictions
          /\ last_prediction_time' = last_prediction_time
          /\ persisted' = persisted
          /\ processed_messages' = processed_messages]_vars

\* a finalized text with a unique majority, never seen before, has just
\* been stopped by the cooldown alone
C30_Witness ==
    /\ ev.op = "process" /\ ev.made = NoGame
    /\ ReachesCooldownGate(ev.msg)
    /\ Parsed(ev.msg).completion
    /\ Cardinality(MajoritySuits(ev.msg)) = 1
    /\ last_prediction_time # 0
    /\ now - last_prediction_time < prediction_cooldown
    /\ message_hash(ev.msg) \notin processed_messages

\* C31 as stated: processing a message, creating or verifying a prediction
\* and resetting the ledger (reset_predictions, reset_all_predictions, the
\* /reset command) leave the redirection table as it was.
C31_RedirectTableOnlyConfigured ==
    [][ev'.op \in {"process", "make_prediction", "reset", "reset_all",
                   "reset_command"}
       => redirect_channels' = redirect_channels]_vars

\* C32: a call of edit_prediction_message for a record without message id
\* reaches no Editor; an Editor call addresses the chat and the message id
\* the record has held since it was published and carries the record's new
\* text; and when the Editor fails the record keeps its new status.
C32_EditOnlyWithHandle ==
    [][(ev'.op = "process")
       => /\ \A i \in 1..Len(ev'.attempts) :
                (\/ ev'.attempts[i] \notin DOMAIN predictions
                 \/ predictions[ev'.attempts[i]].message_id = NoId)
                => ev'.edits = << >>
          /\ \A i \in 1..Len(ev'.edits) :
                LET e == ev'.edits[i]
                    t == ev'.verified
                IN  /\ t \in DOMAIN predictions
                    /\ predictions[t].message_id # NoId
                    /\ e.message_id = predictions[t].message_id
                    /\ e.chat_id = predictions[t].chat_id
                    /\ e.text.game = t
                    /\ e.text.status = predictions'[t].status
                    /\ predictions'[t].status \in {"OK0", "OK1", "FAILED"}
                    /\ predictions'[t].verified]_vars

\* the Editor failed on the text of a record that a round-4 message closed
\* as FAILED
C32_Witness ==
    /\ ev.op = "process" /\ ev.edits # << >>
    /\ ~ev.edits[1].ok
    /\ ev.edits[1].message_id = 11
    /\ ev.was = "waiting_next"
    /\ predictions[ev.verified].status = "FAILED"

\* C33: a creation whose Publisher call fails still sets last_prediction_time
\* to the time of the creation, saves it, and leaves the message's
\* fingerprint in the set; and no record is created less than one cooldown
\* after the last creation, whether that one was published or not.
C33_FailedPublishConsumesCooldown ==
    [][(ev'.op = "process" /\ ev'.made # NoGame)
       => /\ ~ev'.publishes[1].ok
             => /\ last_prediction_time' = now
                /\ persisted' = now
                /\ message_hash(ev'.msg) \in processed_messages'
                /\ predictions'[ev'.made].timestamp = now
          /\ prevCreate # 0 => now - prevCreate >= prediction_cooldown]_vars

\* the second creation of a behaviour, one cooldown after the first: its
\* Publisher call failed, and the timestamp and the file hold its time
C33_Witness ==
    /\ ev.op = "process" /\ ev.made # NoGame
    /\ ~ev.publishes[1].ok
    /\ now = 31 /\ last_prediction_time = 31 /\ persisted = 31
    /\ predictions[ev.made].message_id = NoId
    /\ message_hash(ev.msg) \in processed_messages
    /\ Cardinality(DOMAIN predictions) = 2

\* C34 as stated: with one finalized message per round arriving in
\* increasing round order, every record whose target round and the round
\* after it belong to the feed eventually reaches OK0, OK1 or FAILED.
C34_EveryRecordCloses ==
    \A T \in {3, 4} :
        (T \in DOMAIN predictions)
        ~> (T \in DOMAIN predictions
              /\ predictions[T].status \in {"OK0", "OK1", "FAILED"})

\* C35 as stated: a record's verified flag is set, with the game and the
\* time of its verification, exactly when its status is OK0, OK1 or FAILED.
C35_VerifiedIffTerminal ==
    \A T \in DOMAIN predictions :
        /\ predictions[T].verified
              <=> predictions[T].status \in {"OK0", "OK1", "FAILED"}
        /\ predictions[T].verified
              => /\ predictions[T].verification_game # NoGame
                 /\ predictions[T].verified_at # 0

\* C36: after every step each record stored under T has predicted_from =
\* T - 2, and a call that creates a record leaves it PENDING: the record the
\* call verifies, if any, is another one.
C36_SourceIsTargetMinusTwo ==
    [][/\ \A T \in DOMAIN predictions' :
             predictions'[T].predicted_from = T - 2
       /\ (ev'.op = "process" /\ ev'.made # NoGame)
          => /\ predictions'[ev'.made].status = "PENDING"
             /\ ~predictions'[ev'.made].verified
             /\ ev'.verified # ev'.made
             /\ \A i \in 1..Len(ev'.attempts) : ev'.attempts[i] # ev'.made]_vars

\* the round-3 message has created record 5 and, in the same call, confirmed
\* record 3
C36_Witness ==
    /\ ev.op = "process" /\ ev.made = 5 /\ ev.verified = 3
    /\ predictions[5].status = "PENDING" /\ predictions[5].predicted_from = 3
    /\ predictions[3].status = "OK0" /\ predictions[3].predicted_from = 1

\* C37 as stated: after a finalized message for round N has been processed,
\* the stash holds no entry for round N, whatever the decision was.
C37_StashClearedByFinalMessage ==
    [][(/\ ev'.op = "process"
        /\ HasRoundNumber(ev'.msg)
        /\ Parsed(ev'.msg).completion)
       => Parsed(ev'.msg).game_number \notin DOMAIN temporary_messages']_vars

\* C38 as stated: a finalized message of round 0 with a unique majority suit
\* that passes the other gates (no exclusion marker, target 2 not open,
\* cooldown elapsed, text not fingerprinted) creates the record for target 2.
C38_RoundZeroCreates ==
    [][(/\ ev'.op = "process"
        /\ HasRoundNumber(ev'.msg)
        /\ Parsed(ev'.msg).game_number = 0
        /\ Parsed(ev'.msg).completion
        /\ ~HasExclusionMarker(ev'.msg)
        /\ Cardinality(MajoritySuits(ev'.msg)) = 1
        /\ ~target_pending(2)
        /\ can_make_prediction
        /\ ~already_processed(ev'.msg))
       => /\ ev'.made = 2
          /\ 2 \in DOMAIN predictions'
          /\ predictions'[2].predicted_from = 0]_vars

\* C39: for every user and every sequence of calls of is_rate_limited, at
\* most MAX_MESSAGES_PER_MINUTE calls are accepted (return False) within
\* any window of RATE_LIMIT_WINDOW seconds, a window being
\* RATE_LIMIT_WINDOW consecutive seconds; a call that returns True adds no
\* timestamp to the user's list; a call for one user leaves the list of the
\* other user as it was, and its outcome is decided by the accepted calls
\* of its own user alone.
C39_RateLimit ==
    [][ev'.op = "is_rate_limited"
       => /\ \A w \in RateUsers, t \in RateInstants :
                 Cardinality(AcceptedInWindow(w, t)') <= MAX_MESSAGES_PER_MINUTE
          /\ ev'.was = "limited"
                 => Len(user_message_counts'[ev'.user])
                        <= Len(user_message_counts[ev'.user])
          /\ \A v \in RateUsers \ {ev'.user} :
                 user_message_counts'[v] = user_message_counts[v]
          /\ ev'.was = "limited"
                 <=> Cardinality(AcceptedInWindow(ev'.user, now))
                         >= MAX_MESSAGES_PER_MINUTE]_vars

\* a call refused in the second after a window that held calls of both
\* users: the first calls of the user have left the window, the later ones
\* fill it
C39_Witness ==
    /\ ev.op = "is_rate_limited"
    /\ ev.was = "limited"
    /\ ev.user = AUTHORIZED_USER_ID
    /\ now = RATE_LIMIT_WINDOW + 1
    /\ Len(accepted[AUTHORIZED_USER_ID]) > MAX_MESSAGES_PER_MINUTE
    /\ accepted[AUTHORIZED_USER_ID][1] = 1
    /\ Len(accepted[OTHER_USER_ID]) > 0

\* C40 as stated: a /cooldown or /reset command whose sender is not
\* AUTHORIZED_USER_ID, a command with no sender user id included, leaves
\* the cooldown duration, the redirection table and the stored publish
\* handles as they were.
C40_CommandsOnlyFromAuthorizedUser ==
    [][/\ ev'.op \in {"cooldown", "reset_command"}
       /\ ev'.user # AUTHORIZED_USER_ID
       => /\ prediction_cooldown' = prediction_cooldown
          /\ redirect_channels' = redirect_channels
          /\ sent_predictions' = sent_predictions]_vars

=============================================================================
